---- MODULE Spec2Model ----
(***************************************************************************)
(* A model of the production-analytics chatbot: the query parser           *)
(* (src/src/parsers.py), the SQL builder (src/src/sql_builder.py), the     *)
(* machine mapping table (src/src/config.py), the request pipeline        *)
(* (src/app.py) and the chat sessions (src/src/session_manager.py).        *)
(*                                                                         *)
(* Spec applies one operation of the parser or the builder to a call;      *)
(* SpecApp is the bot processing query after query; SpecShared has two     *)
(* threads calling at once; SpecClock follows extract_date_range while     *)
(* the clock goes on; SpecSessions and SpecSessionsStored are the session  *)
(* manager, from an empty session state and from one partly filled.        *)
(*                                                                         *)
(* A Python str is modelled as the sequence of its characters, each a      *)
(* one-character string, so that substring tests, joins and formatting     *)
(* are computed as the interpreter computes them.  A call that returns is  *)
(* Ok(value); a call that raises is Raise(exception, argument).            *)
(***************************************************************************)
EXTENDS Integers, Sequences, FiniteSets, TLC

\* Longest machine list handed to build_device_filter.
MaxMachines == 3

-----------------------------------------------------------------------------
(* Results of a call *)

Ok(v) == [tag |-> "ok", value |-> v]

Raise(e, a) == [tag |-> "raise", exc |-> e, arg |-> a]

-----------------------------------------------------------------------------
(* Strings *)

Range(s) == {s[i] : i \in 1..Len(s)}

\* The values of a function (a dict).
Values(f) == {f[x] : x \in DOMAIN f}

\* All sequences over S of length at most n.
SeqUpTo(S, n) == UNION {[1..k -> S] : k \in 0..n}

\* Python's `p in s` for strings: p occurs in s as a contiguous substring.
Contains(s, p) ==
    \E i \in 0..(Len(s) - Len(p)) : SubSeq(s, i + 1, i + Len(p)) = p

\* Python's sep.join(parts).
RECURSIVE Join(_, _)
Join(sep, parts) ==
    IF parts = << >> THEN << >>
    ELSE IF Len(parts) = 1 THEN parts[1]
    ELSE parts[1] \o sep \o Join(sep, Tail(parts))

\* The pieces of s between occurrences of the character c (Python's s.split(c)).
RECURSIVE SplitOn(_, _)
SplitOn(s, c) ==
    IF \A i \in 1..Len(s) : s[i] # c THEN <<s>>
    ELSE LET k == CHOOSE i \in 1..Len(s) : s[i] = c /\ \A j \in 1..(i - 1) : s[j] # c
         IN  <<SubSeq(s, 1, k - 1)>> \o SplitOn(SubSeq(s, k + 1, Len(s)), c)

\* The SQL string literals of a clause, in order: the text between the 1st and
\* 2nd single quote, between the 3rd and 4th, and so on.
QuotedValues(s) ==
    LET parts == SplitOn(s, "'")
    IN  [i \in 1..((Len(parts) - 1) \div 2) |-> parts[2 * i]]

-----------------------------------------------------------------------------
(* src/src/config.py: the machine mapping table *)

\* "stenter1"
id_stenter1 == <<"s","t","e","n","t","e","r","1">>

\* "stenter01"
id_stenter01 == <<"s","t","e","n","t","e","r","0","1">>

\* "stenter3"
id_stenter3 == <<"s","t","e","n","t","e","r","3">>

\* "stenter7"
id_stenter7 == <<"s","t","e","n","t","e","r","7">>

\* "stenter99"
id_stenter99 == <<"s","t","e","n","t","e","r","9","9">>

\* "x' OR '1'='1"
id_quoted == <<"x","'"," ","O","R"," ","'","1","'","=","'","1">>

\* "TJ-Stenter01 Length(ioid2)"
dev_Stenter01_Length ==
    <<"T","J","-","S","t","e","n","t","e","r","0","1"," ","L","e","n","g","t","h","(","i","o",
      "i","d","2",")">>

\* "TJ-Stenter07A"
dev_Stenter07A == <<"T","J","-","S","t","e","n","t","e","r","0","7","A">>

\* "TJ-Stenter03 Status"
dev_Stenter03_Status ==
    <<"T","J","-","S","t","e","n","t","e","r","0","3"," ","S","t","a","t","u","s">>

\* "AND device_id = (SELECT virtual_device_id FROM devices WHERE device_name = '"
EqHead ==
    <<"A","N","D"," ","d","e","v","i","c","e","_","i","d"," ","="," ","(","S","E","L","E","C",
      "T"," ","v","i","r","t","u","a","l","_","d","e","v","i","c","e","_","i","d"," ","F","R",
      "O","M"," ","d","e","v","i","c","e","s"," ","W","H","E","R","E"," ","d","e","v","i","c",
      "e","_","n","a","m","e"," ","="," ","'">>

\* "')"
EqTail == <<"'",")">>

\* "AND device_id IN (SELECT virtual_device_id FROM devices WHERE device_name IN ('"
InHead ==
    <<"A","N","D"," ","d","e","v","i","c","e","_","i","d"," ","I","N"," ","(","S","E","L","E",
      "C","T"," ","v","i","r","t","u","a","l","_","d","e","v","i","c","e","_","i","d"," ","F",
      "R","O","M"," ","d","e","v","i","c","e","s"," ","W","H","E","R","E"," ","d","e","v","i",
      "c","e","_","n","a","m","e"," ","I","N"," ","(","'">>

\* "'))"
InTail == <<"'",")",")">>

\* "', '"
JoinSep == <<"'",","," ","'">>

\* MACHINE_MAPPINGS: category -> (machine identifier -> device name).  The
\* literal holds the production category with two identifiers, and no other
\* category.
MACHINE_MAPPINGS ==
    [production |-> (id_stenter1 :> dev_Stenter01_Length
                     @@ id_stenter01 :> dev_Stenter01_Length)]

-----------------------------------------------------------------------------
(* State *)

VARIABLES
    mappings,   \* config.MACHINE_MAPPINGS, the module-level dict
    templates,  \* SQLBuilder.templates
    db_client,  \* ClickHouseClient._client: "None" until a connection is made
    call,       \* the operation called, with its arguments
    ret,        \* what the call returned or raised; Pending before it ran
    trace,      \* the calls process_query made on the bot's components
    seen,       \* the extractions made so far: query, current date, result
    clock,      \* the day datetime.now() shows
    session_state,  \* st.session_state: sessions and active_session_id, once set
    added       \* for each session, every message it was given, in order

vars == <<mappings, templates, db_client, call, ret, trace, seen, clock, session_state, added>>

\* The state outside the parser, the builder and the bot.
session_vars == <<seen, clock, session_state, added>>

Pending == [tag |-> "pending"]

Returned == ret.tag # "pending"

-----------------------------------------------------------------------------
(* src/src/sql_builder.py: SQLBuilder.build_device_filter *)

\* The loop of build_device_filter: the device names of the machines that are
\* keys of the category's mapping, in the order of the machine list.
RECURSIVE machine_names(_, _)
machine_names(machines, query_type) ==
    IF machines = << >> THEN << >>
    ELSE LET rest == machine_names(Tail(machines), query_type)
         IN  IF Head(machines) \in DOMAIN mappings[query_type]
             THEN <<mappings[query_type][Head(machines)]>> \o rest
             ELSE rest

\* A plausible slip: the single-machine branch tests the number of machines
\* asked for instead of the number of names that resolved.
build_device_filter_counts_machines(machines, query_type) ==
    IF machines = << >> THEN Ok(<< >>)
    ELSE IF query_type \notin DOMAIN mappings THEN Raise("KeyError", query_type)
    ELSE LET names == machine_names(machines, query_type)
         IN  IF Len(machines) = 1 /\ names # << >>
             THEN Ok(EqHead \o names[1] \o EqTail)
             ELSE Ok(InHead \o Join(JoinSep, names) \o InTail)

\* build_device_filter(machines, query_type).  MACHINE_MAPPINGS[query_type]
\* raises KeyError for a category the table lacks, on the first machine of the
\* loop; an empty machine list returns before any lookup.
build_device_filter(machines, query_type) ==
    IF machines = << >> THEN Ok(<< >>)
    ELSE IF query_type \notin DOMAIN mappings THEN Raise("KeyError", query_type)
    ELSE LET names == machine_names(machines, query_type)
         IN  IF Len(names) = 1
             THEN Ok(EqHead \o names[1] \o EqTail)
             ELSE Ok(InHead \o Join(JoinSep, names) \o InTail)

-----------------------------------------------------------------------------
(* src/src/sql_builder.py: the templates and SQLBuilder.build_query *)

\* the text of the daily_production literal, sql_builder.py:15-23
tpl_daily_production ==
    <<"\n"," "," "," "," "," "," "," "," "," "," "," "," ","W","I","T","H"," ","d","e","v","i",
      "c","e","_","l","o","o","k","u","p"," ","A","S"," ","(","\n"," "," "," "," "," "," "," ",
      " "," "," "," "," "," "," "," "," ","S","E","L","E","C","T"," ","v","i","r","t","u","a",
      "l","_","d","e","v","i","c","e","_","i","d",","," ","d","e","v","i","c","e","_","n","a",
      "m","e"," ","F","R","O","M"," ","d","e","v","i","c","e","s","\n"," "," "," "," "," "," ",
      " "," "," "," "," "," ",")",",","\n"," "," "," "," "," "," "," "," "," "," "," "," ","p",
      "r","o","d","u","c","t","i","o","n","_","c","a","l","c","u","l","a","t","i","o","n"," ",
      "A","S"," ","(","\n"," "," "," "," "," "," "," "," "," "," "," "," "," "," "," "," ","-",
      "-"," ","Y","o","u","r"," ","e","x","i","s","t","i","n","g"," ","t","e","m","p","l","a",
      "t","e"," ","l","o","g","i","c","\n"," "," "," "," "," "," "," "," "," "," "," "," ",")",
      "\n"," "," "," "," "," "," "," "," "," "," "," "," ","S","E","L","E","C","T"," ","*"," ",
      "F","R","O","M"," ","p","r","o","d","u","c","t","i","o","n","_","c","a","l","c","u","l",
      "a","t","i","o","n",";","\n"," "," "," "," "," "," "," "," "," "," "," "," ">>

\* "daily_production"
nm_daily_production == <<"d","a","i","l","y","_","p","r","o","d","u","c","t","i","o","n">>

\* "hourly_production"
nm_hourly_production == <<"h","o","u","r","l","y","_","p","r","o","d","u","c","t","i","o","n">>

\* "daily_energy"
nm_daily_energy == <<"d","a","i","l","y","_","e","n","e","r","g","y">>

\* "weekly_report"
nm_weekly_report == <<"w","e","e","k","l","y","_","r","e","p","o","r","t">>

\* "SELECT * FROM production WHERE ts >= '{start_date}' AND ts <= '{end_date}' {device_filter}"
tpl_hourly_production ==
    <<"S","E","L","E","C","T"," ","*"," ","F","R","O","M"," ","p","r","o","d","u","c","t","i",
      "o","n"," ","W","H","E","R","E"," ","t","s"," ",">","="," ","'","{","s","t","a","r","t",
      "_","d","a","t","e","}","'"," ","A","N","D"," ","t","s"," ","<","="," ","'","{","e","n",
      "d","_","d","a","t","e","}","'"," ","{","d","e","v","i","c","e","_","f","i","l","t","e",
      "r","}">>

\* "SELECT * FROM energy WHERE day BETWEEN '{start_date}' AND '{end_date}'"
tpl_daily_energy ==
    <<"S","E","L","E","C","T"," ","*"," ","F","R","O","M"," ","e","n","e","r","g","y"," ","W",
      "H","E","R","E"," ","d","a","y"," ","B","E","T","W","E","E","N"," ","'","{","s","t","a",
      "r","t","_","d","a","t","e","}","'"," ","A","N","D"," ","'","{","e","n","d","_","d","a",
      "t","e","}","'">>

\* "device_filter"
f_device_filter == <<"d","e","v","i","c","e","_","f","i","l","t","e","r">>

\* "start_date"
f_start_date == <<"s","t","a","r","t","_","d","a","t","e">>

\* "end_date"
f_end_date == <<"e","n","d","_","d","a","t","e">>

\* "2025-06-01"
v_start_date == <<"2","0","2","5","-","0","6","-","0","1">>

\* "2025-06-15"
v_end_date == <<"2","0","2","5","-","0","6","-","1","5">>

\* "Template "
msg_Template == <<"T","e","m","p","l","a","t","e"," ">>

\* " not found"
msg_not_found == <<" ","n","o","t"," ","f","o","u","n","d">>

\* The table _load_templates returns: one template, which has no placeholder.
load_templates == (nm_daily_production :> tpl_daily_production)

\* Entries standing for those the literal of _load_templates elides
\* ("# ... other templates"): templates with the named placeholders for the
\* device filter clause and the two date bounds.
other_templates ==
    (nm_hourly_production :> tpl_hourly_production
     @@ nm_daily_energy :> tpl_daily_energy)

Braces == {"{", "}"}

Digits == {"0", "1", "2", "3", "4", "5", "6", "7", "8", "9"}

\* r with the text s put in front, when r is a returned string.
Prepend(s, r) == IF r.tag = "ok" THEN Ok(s \o r.value) ELSE r

\* A plausible slip: a field with no bound value is left in the text as it
\* stands (a "safe" substitution) instead of raising.
RECURSIVE FormatFrom_keeps_unbound(_, _, _)
FormatFrom_keeps_unbound(t, i, params) ==
    IF \A j \in i..Len(t) : t[j] \notin Braces THEN Ok(SubSeq(t, i, Len(t)))
    ELSE IF t[i] \notin Braces THEN
        LET k == CHOOSE k \in i..Len(t) :
                    t[k] \in Braces /\ \A j \in i..(k - 1) : t[j] \notin Braces
        IN  Prepend(SubSeq(t, i, k - 1), FormatFrom_keeps_unbound(t, k, params))
    ELSE IF t[i] = "{" THEN
        IF i < Len(t) /\ t[i + 1] = "{"
        THEN Prepend(<<"{">>, FormatFrom_keeps_unbound(t, i + 2, params))
        ELSE IF i = Len(t)
        THEN Raise("ValueError", "Single '{' encountered in format string")
        ELSE IF \A j \in (i + 1)..Len(t) : t[j] # "}"
        THEN Raise("ValueError", "expected '}' before end of string")
        ELSE LET j == CHOOSE j \in (i + 1)..Len(t) :
                        t[j] = "}" /\ \A k \in (i + 1)..(j - 1) : t[k] # "}"
                 field == SubSeq(t, i + 1, j - 1)
             IN  IF Range(field) \subseteq Digits
                 THEN Raise("IndexError", field)
                 ELSE IF field \notin DOMAIN params
                 THEN Prepend(SubSeq(t, i, j), FormatFrom_keeps_unbound(t, j + 1, params))
                 ELSE Prepend(params[field], FormatFrom_keeps_unbound(t, j + 1, params))
    ELSE
        IF i < Len(t) /\ t[i + 1] = "}"
        THEN Prepend(<<"}">>, FormatFrom_keeps_unbound(t, i + 2, params))
        ELSE Raise("ValueError", "Single '}' encountered in format string")

\* Python's t.format(**params) from position i on, with keyword arguments
\* only.  The text is scanned left to right and the first error met is
\* raised: "{{" and "}}" give one brace; "{name}" gives params[name], or
\* KeyError when name is no keyword; "{}" and "{0}" are positional and give
\* IndexError, there being no positional argument; a lone "}" or an unclosed
\* "{" gives ValueError.  Conversions, format specifications and attribute or
\* index lookups inside a field are not modelled.
RECURSIVE FormatFrom(_, _, _)
FormatFrom(t, i, params) ==
    IF \A j \in i..Len(t) : t[j] \notin Braces THEN Ok(SubSeq(t, i, Len(t)))
    ELSE IF t[i] \notin Braces THEN
        LET k == CHOOSE k \in i..Len(t) :
                    t[k] \in Braces /\ \A j \in i..(k - 1) : t[j] \notin Braces
        IN  Prepend(SubSeq(t, i, k - 1), FormatFrom(t, k, params))
    ELSE IF t[i] = "{" THEN
        IF i < Len(t) /\ t[i + 1] = "{"
        THEN Prepend(<<"{">>, FormatFrom(t, i + 2, params))
        ELSE IF i = Len(t)
        THEN Raise("ValueError", "Single '{' encountered in format string")
        ELSE IF \A j \in (i + 1)..Len(t) : t[j] # "}"
        THEN Raise("ValueError", "expected '}' before end of string")
        ELSE LET j == CHOOSE j \in (i + 1)..Len(t) :
                        t[j] = "}" /\ \A k \in (i + 1)..(j - 1) : t[k] # "}"
                 field == SubSeq(t, i + 1, j - 1)
             IN  IF Range(field) \subseteq Digits
                 THEN Raise("IndexError", field)
                 ELSE IF field \notin DOMAIN params
                 THEN Raise("KeyError", field)
                 ELSE Prepend(params[field], FormatFrom(t, j + 1, params))
    ELSE
        IF i < Len(t) /\ t[i + 1] = "}"
        THEN Prepend(<<"}">>, FormatFrom(t, i + 2, params))
        ELSE Raise("ValueError", "Single '}' encountered in format string")

\* A plausible slip: an unregistered template name yields an empty query
\* instead of raising.
build_query_empty_when_missing(template_name, params) ==
    IF template_name \notin DOMAIN templates
    THEN Ok(<< >>)
    ELSE FormatFrom(templates[template_name], 1, params)

\* A plausible slip: the KeyError of a missing parameter is logged and
\* swallowed, and the template is returned as it stands.
build_query_swallows_KeyError(template_name, params) ==
    IF template_name \notin DOMAIN templates
    THEN Raise("ValueError", msg_Template \o template_name \o msg_not_found)
    ELSE LET r == FormatFrom(templates[template_name], 1, params)
         IN  IF r.tag = "raise" /\ r.exc = "KeyError"
             THEN Ok(templates[template_name])
             ELSE r

\* build_query(template_name, **params): ValueError("Template <name> not
\* found") for a name that is no key of self.templates; otherwise the
\* template formatted with the parameters, a KeyError being logged and raised
\* again and any other exception passing through.
build_query(template_name, params) ==
    IF template_name \notin DOMAIN templates
    THEN Raise("ValueError", msg_Template \o template_name \o msg_not_found)
    ELSE FormatFrom(templates[template_name], 1, params)

-----------------------------------------------------------------------------
(* src/src/parsers.py: QueryParser *)

\* "abcdefghijklmnopqrstuvwxyz"
LowerLetters ==
    <<"a","b","c","d","e","f","g","h","i","j","k","l","m","n","o","p","q","r","s","t","u","v",
      "w","x","y","z">>

\* "ABCDEFGHIJKLMNOPQRSTUVWXYZ"
UpperLetters ==
    <<"A","B","C","D","E","F","G","H","I","J","K","L","M","N","O","P","Q","R","S","T","U","V",
      "W","X","Y","Z">>

\* "hello"
p_hello == <<"h","e","l","l","o">>

\* "hi"
p_hi == <<"h","i">>

\* "hey"
p_hey == <<"h","e","y">>

\* "thank you"
p_thank_you == <<"t","h","a","n","k"," ","y","o","u">>

\* "thanks"
p_thanks == <<"t","h","a","n","k","s">>

\* "bye"
p_bye == <<"b","y","e">>

Whitespace == {" ", "\t", "\n", "\r", "\f"}

\* The lower-case letter of each capital.
LowerOf ==
    [c \in Range(UpperLetters) |->
        LowerLetters[CHOOSE i \in 1..Len(UpperLetters) : UpperLetters[i] = c]]

\* Python's c.lower() for an ASCII character.
LowerChar(c) == IF c \in DOMAIN LowerOf THEN LowerOf[c] ELSE c

\* Python's s.lower().
Lower(s) == [i \in 1..Len(s) |-> LowerChar(s[i])]

\* Python's s.strip(): s without its leading and trailing whitespace.
Strip(s) ==
    IF \A i \in 1..Len(s) : s[i] \in Whitespace THEN << >>
    ELSE LET a == CHOOSE i \in 1..Len(s) :
                    s[i] \notin Whitespace /\ \A j \in 1..(i - 1) : s[j] \in Whitespace
             b == CHOOSE i \in 1..Len(s) :
                    s[i] \notin Whitespace /\ \A j \in (i + 1)..Len(s) : s[j] \in Whitespace
         IN  SubSeq(s, a, b)

\* QueryParser.casual_patterns, as set in __init__.
casual_patterns == <<p_hello, p_hi, p_hey, p_thank_you, p_thanks, p_bye>>

\* is_casual_query(query): some pattern occurs in the lowercased, stripped
\* query as a substring.
is_casual_query(query) ==
    LET query_lower == Strip(Lower(query))
    IN  \E i \in 1..Len(casual_patterns) : Contains(query_lower, casual_patterns[i])

(* detect_query_type, src/src/parsers.py lines 20-31 *)

\* "production"
kw_production == <<"p","r","o","d","u","c","t","i","o","n">>

\* "length"
kw_length == <<"l","e","n","g","t","h">>

\* "fabric length"
kw_fabric_length == <<"f","a","b","r","i","c"," ","l","e","n","g","t","h">>

\* "output"
kw_output == <<"o","u","t","p","u","t">>

\* "energy"
kw_energy == <<"e","n","e","r","g","y">>

\* "consumption"
kw_consumption == <<"c","o","n","s","u","m","p","t","i","o","n">>

\* "power"
kw_power == <<"p","o","w","e","r">>

\* "utilization"
kw_utilization == <<"u","t","i","l","i","z","a","t","i","o","n">>

\* "efficiency"
kw_efficiency == <<"e","f","f","i","c","i","e","n","c","y">>

\* "uptime"
kw_uptime == <<"u","p","t","i","m","e">>

\* "status"
kw_status == <<"s","t","a","t","u","s">>

production_words == <<kw_production, kw_length, kw_fabric_length, kw_output>>

energy_words == <<kw_energy, kw_consumption, kw_power>>

utilization_words == <<kw_utilization, kw_efficiency, kw_uptime, kw_status>>

\* any(word in query_lower for word in words)
any_word_in(words, query_lower) ==
    \E i \in 1..Len(words) : Contains(query_lower, words[i])

\* The classifier with its final "return 'production'" lost, so that a
\* query without any keyword gets no category.
detect_query_type_no_default(query) ==
    LET query_lower == Lower(query)
    IN  IF any_word_in(production_words, query_lower) THEN "production"
        ELSE IF any_word_in(energy_words, query_lower) THEN "energy"
        ELSE IF any_word_in(utilization_words, query_lower) THEN "utilization"
        ELSE "None"

detect_query_type(query) ==
    LET query_lower == Lower(query)
    IN  IF any_word_in(production_words, query_lower) THEN "production"
        ELSE IF any_word_in(energy_words, query_lower) THEN "energy"
        ELSE IF any_word_in(utilization_words, query_lower) THEN "utilization"
        ELSE "production"

(* extract_machine_numbers, src/src/parsers.py lines 33-44 *)

\* "stenter"
lit_stenter == <<"s","t","e","n","t","e","r">>

\* "all machines"
ph_all_machines == <<"a","l","l"," ","m","a","c","h","i","n","e","s">>

\* "all stenters"
ph_all_stenters == <<"a","l","l"," ","s","t","e","n","t","e","r","s">>

\* The length of the run of characters of the set cs that starts at s[i].
RunLength(s, i, cs) ==
    IF i > Len(s) \/ s[i] \notin cs THEN 0
    ELSE LET stops == {j \in i..Len(s) : s[j] \notin cs}
         IN  IF stops = {} THEN Len(s) - i + 1
             ELSE (CHOOSE j \in stops : \A k \in stops : j <= k) - i

\* Where the digits of a match of r'stenter\s*(\d+)' that starts at s[k]
\* begin: after the word and the whitespace that follows it.
digits_start(s, k) == k + Len(lit_stenter) + RunLength(s, k + Len(lit_stenter), Whitespace)

\* r'stenter\s*(\d+)' matches at s[k].
stenter_matches_at(s, k) ==
    /\ k + Len(lit_stenter) - 1 <= Len(s)
    /\ SubSeq(s, k, k + Len(lit_stenter) - 1) = lit_stenter
    /\ RunLength(s, digits_start(s, k), Digits) >= 1

\* re.findall(r'stenter\s*(\d+)', s) from s[i] on: the captured digits of
\* the leftmost match, then those of the matches after its end.
RECURSIVE findall_stenter(_, _)
findall_stenter(s, i) ==
    LET starts == {k \in i..Len(s) : stenter_matches_at(s, k)}
    IN  IF starts = {} THEN << >>
        ELSE LET k == CHOOSE j \in starts : \A l \in starts : j <= l
                 d == digits_start(s, k)
                 n == RunLength(s, d, Digits)
             IN  <<SubSeq(s, d, d + n - 1)>> \o findall_stenter(s, d + n)

\* The keys of MACHINE_MAPPINGS['production'] in the order the dictionary
\* literal lists them, which is the order list(....keys()) returns.
production_keys == <<id_stenter1, id_stenter01>>

\* The members of a set in a list.
RECURSIVE ListOf(_)
ListOf(S) ==
    IF S = {} THEN << >> ELSE LET x == CHOOSE y \in S : TRUE IN <<x>> \o ListOf(S \ {x})

\* list(MACHINE_MAPPINGS['production'].keys()): the keys of the literal in
\* its order, then any key entered since.
list_production_keys ==
    SelectSeq(production_keys, LAMBDA k : k \in DOMAIN mappings["production"])
        \o ListOf(DOMAIN mappings["production"] \ Range(production_keys))

\* The extraction with re.search in the place of re.findall: only the
\* first mention is kept.
extract_machine_numbers_first_only(query) ==
    LET query_lower == Lower(query)
        stenter_matches == findall_stenter(query_lower, 1)
    IN  IF stenter_matches # << >>
        THEN <<lit_stenter \o stenter_matches[1]>>
        ELSE IF \/ Contains(query_lower, ph_all_machines)
                \/ Contains(query_lower, ph_all_stenters)
        THEN list_production_keys
        ELSE << >>

extract_machine_numbers(query) ==
    LET query_lower == Lower(query)
        stenter_matches == findall_stenter(query_lower, 1)
    IN  IF stenter_matches # << >>
        THEN [i \in 1..Len(stenter_matches) |-> lit_stenter \o stenter_matches[i]]
        ELSE IF \/ Contains(query_lower, ph_all_machines)
                \/ Contains(query_lower, ph_all_stenters)
        THEN list_production_keys
        ELSE << >>

(* extract_date_range, src/src/parsers.py lines 46-73 *)

\* "january"
mo_january == <<"j","a","n","u","a","r","y">>

\* "2025-01-01"
d_2025_01_01 == <<"2","0","2","5","-","0","1","-","0","1">>

\* "2025-01-31"
d_2025_01_31 == <<"2","0","2","5","-","0","1","-","3","1">>

\* "february"
mo_february == <<"f","e","b","r","u","a","r","y">>

\* "2025-02-01"
d_2025_02_01 == <<"2","0","2","5","-","0","2","-","0","1">>

\* "2025-02-28"
d_2025_02_28 == <<"2","0","2","5","-","0","2","-","2","8">>

\* "march"
mo_march == <<"m","a","r","c","h">>

\* "2025-03-01"
d_2025_03_01 == <<"2","0","2","5","-","0","3","-","0","1">>

\* "2025-03-31"
d_2025_03_31 == <<"2","0","2","5","-","0","3","-","3","1">>

\* "april"
mo_april == <<"a","p","r","i","l">>

\* "2025-04-01"
d_2025_04_01 == <<"2","0","2","5","-","0","4","-","0","1">>

\* "2025-04-30"
d_2025_04_30 == <<"2","0","2","5","-","0","4","-","3","0">>

\* "may"
mo_may == <<"m","a","y">>

\* "2025-05-01"
d_2025_05_01 == <<"2","0","2","5","-","0","5","-","0","1">>

\* "2025-05-31"
d_2025_05_31 == <<"2","0","2","5","-","0","5","-","3","1">>

\* "last 7 days"
ph_last_7_days == <<"l","a","s","t"," ","7"," ","d","a","y","s">>

\* "past week"
ph_past_week == <<"p","a","s","t"," ","w","e","e","k">>

\* "0123456789"
DigitChars == <<"0","1","2","3","4","5","6","7","8","9">>

\* month_mappings, in the order of the dictionary literal.
month_mappings ==
    <<[month |-> mo_january,  start |-> d_2025_01_01, end |-> d_2025_01_31],
      [month |-> mo_february, start |-> d_2025_02_01, end |-> d_2025_02_28],
      [month |-> mo_march,    start |-> d_2025_03_01, end |-> d_2025_03_31],
      [month |-> mo_april,    start |-> d_2025_04_01, end |-> d_2025_04_30],
      [month |-> mo_may,      start |-> d_2025_05_01, end |-> d_2025_05_31]>>

\* datetime.date of the standard library: the proleptic Gregorian calendar.
is_leap(year) == year % 4 = 0 /\ (year % 100 # 0 \/ year % 400 = 0)

days_in_month(year, month) ==
    IF month = 2 /\ is_leap(year) THEN 29
    ELSE <<31, 28, 31, 30, 31, 30, 31, 31, 30, 31, 30, 31>>[month]

days_before_year(year) ==
    LET y == year - 1 IN y * 365 + (y \div 4) - (y \div 100) + (y \div 400)

RECURSIVE days_before_month(_, _)
days_before_month(year, month) ==
    IF month = 1 THEN 0
    ELSE days_before_month(year, month - 1) + days_in_month(year, month - 1)

\* date.toordinal(): 1 for 0001-01-01.
toordinal(date) ==
    days_before_year(date.year) + days_before_month(date.year, date.month) + date.day

\* date.fromordinal(n)
fromordinal(n) ==
    LET year  == CHOOSE y \in (n \div 366)..(n \div 365 + 1) :
                     days_before_year(y) < n /\ n <= days_before_year(y + 1)
        rest  == n - days_before_year(year)
        month == CHOOSE m \in 1..12 :
                     /\ days_before_month(year, m) < rest
                     /\ rest <= days_before_month(year, m) + days_in_month(year, m)
    IN  [year |-> year, month |-> month, day |-> rest - days_before_month(year, month)]

\* The subtraction with its sign lost: end_date + timedelta(days=days).
date_plus_days(date, days) == fromordinal(toordinal(date) + days)

\* The subtraction counting the end day as one of the days.
date_minus_days_inclusive(date, days) == fromordinal(toordinal(date) - days + 1)

\* date - timedelta(days=days)
date_minus_days(date, days) == fromordinal(toordinal(date) - days)

\* The decimal digits of n, padded with zeros to the width.
RECURSIVE power_of_ten(_)
power_of_ten(k) == IF k = 0 THEN 1 ELSE 10 * power_of_ten(k - 1)

zero_padded(n, width) ==
    [i \in 1..width |-> DigitChars[((n \div power_of_ten(width - i)) % 10) + 1]]

\* The formatting without zero padding, as '%Y-%-m-%-d' would do it.
RECURSIVE decimal(_)
decimal(n) == IF n < 10 THEN <<DigitChars[n + 1]>> ELSE decimal(n \div 10) \o <<DigitChars[(n % 10) + 1]>>

strftime_unpadded(date) ==
    decimal(date.year) \o <<"-">> \o decimal(date.month) \o <<"-">> \o decimal(date.day)

\* date.strftime('%Y-%m-%d')
strftime(date) ==
    zero_padded(date.year, 4) \o <<"-">> \o zero_padded(date.month, 2)
        \o <<"-">> \o zero_padded(date.day, 2)

\* now is the value datetime.now() returns in the one branch that reads it.
extract_date_range(query, now) ==
    LET query_lower == Lower(query)
        named == {i \in 1..Len(month_mappings) :
                      Contains(query_lower, month_mappings[i].month)}
    IN  IF named # {}
        THEN LET i == CHOOSE j \in named : \A k \in named : j <= k
             IN  <<month_mappings[i].start, month_mappings[i].end>>
        ELSE IF \/ Contains(query_lower, ph_last_7_days)
                \/ Contains(query_lower, ph_past_week)
        THEN <<strftime(date_minus_days(now, 7)), strftime(now)>>
        ELSE <<strftime([now EXCEPT !.day = 1]), strftime(now)>>

(* detect_visualization_needs, src/src/parsers.py lines 75-92 *)

\* "plot"
vz_plot == <<"p","l","o","t">>

\* "chart"
vz_chart == <<"c","h","a","r","t">>

\* "graph"
vz_graph == <<"g","r","a","p","h">>

\* "visualize"
vz_visualize == <<"v","i","s","u","a","l","i","z","e">>

\* "show"
vz_show == <<"s","h","o","w">>

\* "line"
ct_line == <<"l","i","n","e">>

\* "pie"
ct_pie == <<"p","i","e">>

\* "bar"
ct_bar == <<"b","a","r">>

viz_keywords == <<vz_plot, vz_chart, vz_graph, vz_visualize, vz_show>>

detect_visualization_needs(query) ==
    LET query_lower == Lower(query)
        needs_viz == \E i \in 1..Len(viz_keywords) : Contains(query_lower, viz_keywords[i])
        chart_type == IF Contains(query_lower, ct_line) THEN "line"
                      ELSE IF Contains(query_lower, ct_pie) THEN "pie"
                      ELSE IF Contains(query_lower, ct_bar) THEN "bar"
                      ELSE "bar"
    IN  <<needs_viz, chart_type>>

(* detect_query_intent: imported from parsers by src/tests/test_parsers.py *)
(* and not defined there; written after the specification's section 4.1   *)

\* "hour"
g_hour == <<"h","o","u","r">>

\* "hourly"
g_hourly == <<"h","o","u","r","l","y">>

\* "day"
g_day == <<"d","a","y">>

\* "daily"
g_daily == <<"d","a","i","l","y">>

\* "month"
g_month == <<"m","o","n","t","h">>

\* "monthly"
g_monthly == <<"m","o","n","t","h","l","y">>

\* "multi_metric"
t_multi_metric == <<"m","u","l","t","i","_","m","e","t","r","i","c">>

\* "hour"/"hourly" -> hourly; "day"/"daily"/no explicit word -> daily;
\* "month"/"monthly" -> monthly.
detect_granularity(query) ==
    LET query_lower == Lower(query)
    IN  IF Contains(query_lower, g_hour) \/ Contains(query_lower, g_hourly) THEN g_hourly
        ELSE IF Contains(query_lower, g_day) \/ Contains(query_lower, g_daily) THEN g_daily
        ELSE IF Contains(query_lower, g_month) \/ Contains(query_lower, g_monthly) THEN g_monthly
        ELSE g_daily

\* The name of a category as text.
category_text ==
    [production |-> kw_production, energy |-> kw_energy, utilization |-> kw_utilization,
     multi_metric |-> t_multi_metric]

\* daily_production, hourly_production, multi_metric_daily
intent_name(granularity, query_type) ==
    IF query_type = "multi_metric"
    THEN category_text[query_type] \o <<"_">> \o granularity
    ELSE granularity \o <<"_">> \o category_text[query_type]

\* intent, date_range, query_type = detect_query_intent(query); the
\* category is the one detect_query_type finds.
detect_query_intent(query, now) ==
    LET query_type == detect_query_type(query)
    IN  <<intent_name(detect_granularity(query), query_type),
          extract_date_range(query, now), query_type>>

(* build_multi_metric_device_names: imported from sql_builder by            *)
(* src/tests/test_sql_builder.py and not defined there; written after the  *)
(* specification's section 4.2, step 3                                     *)

\* The name of the machine in one category's mapping, '' when the category
\* does not know it.
device_name_in(category, machine) ==
    IF category \in DOMAIN mappings /\ machine \in DOMAIN mappings[category]
    THEN mappings[category][machine]
    ELSE << >>

\* One device name per category, each resolved on its own.
build_multi_metric_device_names(machine) ==
    [production_device  |-> device_name_in("production", machine),
     energy_device      |-> device_name_in("energy", machine),
     utilization_device |-> device_name_in("utilization", machine)]

-----------------------------------------------------------------------------
(* src/src/db_client.py and src/app.py: the request pipeline *)

\* "An error occurred: "
msg_An_error_occurred ==
    <<"A","n"," ","e","r","r","o","r"," ","o","c","c","u","r","r","e","d",":"," ">>

\* "'ProductionAnalyticsBot' object has no attribute '_handle_casual_query'"
msg_no_attribute_handle_casual_query ==
    <<"'","P","r","o","d","u","c","t","i","o","n","A","n","a","l","y","t","i","c","s","B","o",
      "t","'"," ","o","b","j","e","c","t"," ","h","a","s"," ","n","o"," ","a","t","t","r","i",
      "b","u","t","e"," ","'","_","h","a","n","d","l","e","_","c","a","s","u","a","l","_","q",
      "u","e","r","y","'">>

\* "'NoneType' object is not subscriptable"
msg_NoneType_not_subscriptable ==
    <<"'","N","o","n","e","T","y","p","e","'"," ","o","b","j","e","c","t"," ","i","s"," ","n",
      "o","t"," ","s","u","b","s","c","r","i","p","t","a","b","l","e">>

\* What the ClickHouse server does when the client connects: get_client
\* fails, get_client succeeds and the test query SELECT 1 fails, or both
\* succeed.
ConnOutcomes == {"refused", "ping_failed", "ok"}

\* ClickHouseClient.get_schema_info(): execute_query(schema_query) reads the
\* client property, which connects (_create_connection) when _client is
\* None.  A failure to connect, or of the schema query, is raised to
\* get_schema_info, which logs it and returns the empty schema: it never
\* raises.  db is the value of _client afterwards; trace lists the calls made
\* on the ClickHouse driver.
get_schema_info(conn, schema_ok) ==
    IF db_client = "None" /\ conn = "refused"
    THEN [db |-> "None", schema |-> "empty",
          trace |-> <<"clickhouse_connect.get_client">>]
    ELSE IF db_client = "None" /\ conn = "ping_failed"
    THEN [db |-> "None", schema |-> "empty",
          trace |-> <<"clickhouse_connect.get_client", "client.query SELECT 1">>]
    ELSE [db |-> "connected", schema |-> IF schema_ok THEN "rows" ELSE "empty",
          trace |-> (IF db_client = "None"
                     THEN <<"clickhouse_connect.get_client", "client.query SELECT 1">>
                     ELSE << >>) \o <<"client.query schema_query">>]

\* A plausible slip: the SQL is asked of the language model before the schema
\* is read, so the model is prompted without it.
process_query_asks_model_first(user_query, conn, schema_ok) ==
    IF is_casual_query(user_query)
    THEN [ret |-> Ok(msg_An_error_occurred \o msg_no_attribute_handle_casual_query),
          db |-> db_client,
          trace |-> <<"query_parser.is_casual_query">>]
    ELSE LET s == get_schema_info(conn, schema_ok)
         IN  [ret |-> Ok(msg_An_error_occurred \o msg_NoneType_not_subscriptable),
              db |-> s.db,
              trace |-> <<"query_parser.is_casual_query", "llm_client.generate_sql",
                          "db_client.get_schema_info">>
                        \o s.trace
                        \o <<"db_client.execute_query">>]

\* ProductionAnalyticsBot.process_query(user_query).  The class defines no
\* _handle_casual_query, so the casual branch raises AttributeError; in the
\* other branch LLMClient.generate_sql returns None (its body is pass) and
\* execute_query(None) raises TypeError at query[:100], before it reads the
\* client.  Either exception is caught by process_query, logged, and turned
\* into the string "An error occurred: <exception>", so the lines after
\* execute_query (visualization, generate_response) are never reached.
\* trace lists the calls made on the bot's components, in order.
process_query(user_query, conn, schema_ok) ==
    IF is_casual_query(user_query)
    THEN [ret |-> Ok(msg_An_error_occurred \o msg_no_attribute_handle_casual_query),
          db |-> db_client,
          trace |-> <<"query_parser.is_casual_query">>]
    ELSE LET s == get_schema_info(conn, schema_ok)
         IN  [ret |-> Ok(msg_An_error_occurred \o msg_NoneType_not_subscriptable),
              db |-> s.db,
              trace |-> <<"query_parser.is_casual_query", "db_client.get_schema_info">>
                        \o s.trace
                        \o <<"llm_client.generate_sql", "db_client.execute_query">>]

-----------------------------------------------------------------------------
(* Inputs *)

\* The metric categories a caller passes as query_type.
Categories == {"production", "energy", "utilization"}

\* Machine identifiers a caller passes: keys of the table, identifiers the
\* table lacks, and text that is no identifier at all.
MachineIds ==
    {id_stenter1, id_stenter01, id_stenter3, id_stenter7, id_stenter99, id_quoted}

MachineLists == SeqUpTo(MachineIds, MaxMachines)

FilterCalls ==
    {[op |-> "build_device_filter", machines |-> m, query_type |-> q] :
        m \in MachineLists, q \in Categories}

\* The template tables a builder holds: the table of _load_templates, and
\* that table with the elided entries.
TemplateTables == {load_templates, load_templates @@ other_templates}

TemplateNames ==
    {nm_daily_production, nm_hourly_production, nm_daily_energy, nm_weekly_report}

Fields == {f_device_filter, f_start_date, f_end_date}

\* The values a caller binds to a field: a device filter clause (empty, or
\* the clause of one machine) and ISO dates.
FieldValues(f) ==
    IF f = f_device_filter THEN {<< >>, EqHead \o dev_Stenter01_Length \o EqTail}
    ELSE IF f = f_start_date THEN {v_start_date}
    ELSE {v_end_date}

\* The keyword arguments of a build_query call: any subset of the fields,
\* each bound to one of its values.
ParamDicts ==
    UNION {{p \in [D -> UNION {FieldValues(f) : f \in Fields}] :
               \A f \in D : p[f] \in FieldValues(f)} : D \in SUBSET Fields}

QueryCalls ==
    {[op |-> "build_query", template_name |-> n, params |-> p] :
        n \in TemplateNames, p \in ParamDicts}

\* "ok"
p_ok == <<"o","k">>

\* "cool"
p_cool == <<"c","o","o","l">>

\* "help"
p_help == <<"h","e","l","p">>

\* "good morning"
p_good_morning == <<"g","o","o","d"," ","m","o","r","n","i","n","g">>

\* "good afternoon"
p_good_afternoon == <<"g","o","o","d"," ","a","f","t","e","r","n","o","o","n">>

\* "production"
w_production == <<"p","r","o","d","u","c","t","i","o","n">>

\* "report"
w_report == <<"r","e","p","o","r","t">>

\* "energy"
w_energy == <<"e","n","e","r","g","y">>

\* "consumption"
w_consumption == <<"c","o","n","s","u","m","p","t","i","o","n">>

\* "output"
w_output == <<"o","u","t","p","u","t">>

\* "utilization"
w_utilization == <<"u","t","i","l","i","z","a","t","i","o","n">>

\* "machine"
w_machine == <<"m","a","c","h","i","n","e">>

\* "stenter"
w_stenter == <<"s","t","e","n","t","e","r">>

\* "show production data"
q_show_production_data ==
    <<"s","h","o","w"," ","p","r","o","d","u","c","t","i","o","n"," ","d","a","t","a">>

\* "machine performance in april"
q_machine_performance_in_april ==
    <<"m","a","c","h","i","n","e"," ","p","e","r","f","o","r","m","a","n","c","e"," ","i","n",
      " ","a","p","r","i","l">>

\* "energy consumption chart"
q_energy_consumption_chart ==
    <<"e","n","e","r","g","y"," ","c","o","n","s","u","m","p","t","i","o","n"," ","c","h","a",
      "r","t">>

\* "daily output report"
q_daily_output_report ==
    <<"d","a","i","l","y"," ","o","u","t","p","u","t"," ","r","e","p","o","r","t">>

\* "thanks for the production report"
q_thanks_for_the_production_report ==
    <<"t","h","a","n","k","s"," ","f","o","r"," ","t","h","e"," ","p","r","o","d","u","c","t",
      "i","o","n"," ","r","e","p","o","r","t">>

\* "thanks, show production"
q_thanks_show_production ==
    <<"t","h","a","n","k","s",","," ","s","h","o","w"," ","p","r","o","d","u","c","t","i","o",
      "n">>

\* "show production for stenter 99"
q_show_production_for_stenter_99 ==
    <<"s","h","o","w"," ","p","r","o","d","u","c","t","i","o","n"," ","f","o","r"," ","s","t",
      "e","n","t","e","r"," ","9","9">>

\* "daily production for stenter 1"
q_daily_production_for_stenter_1 ==
    <<"d","a","i","l","y"," ","p","r","o","d","u","c","t","i","o","n"," ","f","o","r"," ","s",
      "t","e","n","t","e","r"," ","1">>

\* "energy consumption for stenter 7"
q_energy_consumption_for_stenter_7 ==
    <<"e","n","e","r","g","y"," ","c","o","n","s","u","m","p","t","i","o","n"," ","f","o","r",
      " ","s","t","e","n","t","e","r"," ","7">>

\* "hi there"
q_hi_there == <<"h","i"," ","t","h","e","r","e">>

\* "plot utilization as a line chart"
q_plot_utilization_as_a_line_chart ==
    <<"p","l","o","t"," ","u","t","i","l","i","z","a","t","i","o","n"," ","a","s"," ","a"," ",
      "l","i","n","e"," ","c","h","a","r","t">>

\* "what was produced yesterday"
q_what_was_produced_yesterday ==
    <<"w","h","a","t"," ","w","a","s"," ","p","r","o","d","u","c","e","d"," ","y","e","s","t",
      "e","r","d","a","y">>

\* ""
q_empty == << >>

\* The capital of each lower-case letter, to write a query in capitals.
UpperOf ==
    [c \in Range(LowerLetters) |->
        UpperLetters[CHOOSE i \in 1..Len(LowerLetters) : LowerLetters[i] = c]]

UpperChar(c) == IF c \in DOMAIN UpperOf THEN UpperOf[c] ELSE c

Upper(s) == [i \in 1..Len(s) |-> UpperChar(s[i])]

Capitalized(s) == IF s = << >> THEN s ELSE <<UpperChar(s[1])>> \o Tail(s)

\* The casual and greeting vocabulary of the specification and the tests.
CasualVocabulary ==
    {p_hello, p_hi, p_hey, p_thanks, p_thank_you, p_bye, p_ok, p_cool, p_help,
     p_good_morning, p_good_afternoon}

\* A phrase in lower case, in capitals and capitalized, bare and with
\* whitespace around it.
Written(s) ==
    {pre \o c \o post :
        c \in {s, Upper(s), Capitalized(s)},
        pre \in {<< >>, <<" ">>, <<"\t", " ">>},
        post \in {<< >>, <<" ", "\n">>}}

\* Data queries, from the tests and the scenarios of the specification.
DataQueries ==
    {q_show_production_data, q_machine_performance_in_april,
     q_energy_consumption_chart, q_daily_output_report,
     q_thanks_for_the_production_report, q_thanks_show_production,
     q_show_production_for_stenter_99, q_daily_production_for_stenter_1,
     q_energy_consumption_for_stenter_7, q_hi_there,
     q_plot_utilization_as_a_line_chart, q_what_was_produced_yesterday, q_empty}

Queries == UNION {Written(s) : s \in CasualVocabulary \cup DataQueries}

\* The queries put to the bot: every phrase as written, in capitals, and
\* with whitespace around it.
AppQueries ==
    UNION {{s, Upper(s), <<" ">> \o s \o <<"\n">>} : s \in CasualVocabulary \cup DataQueries}

ParserCalls == {[op |-> "is_casual_query", query |-> q] : q \in Queries}

(* The inputs of detect_query_type *)

\* "downtime"
kw_downtime == <<"d","o","w","n","t","i","m","e">>

\* "production and energy consumption"
q_production_and_energy_consumption ==
    <<"p","r","o","d","u","c","t","i","o","n"," ","a","n","d"," ","e","n","e","r","g","y"," ",
      "c","o","n","s","u","m","p","t","i","o","n">>

\* "show utilization and production"
q_show_utilization_and_production ==
    <<"s","h","o","w"," ","u","t","i","l","i","z","a","t","i","o","n"," ","a","n","d"," ","p",
      "r","o","d","u","c","t","i","o","n">>

\* "energy, production, and efficiency"
q_energy_production_and_efficiency ==
    <<"e","n","e","r","g","y",","," ","p","r","o","d","u","c","t","i","o","n",","," ","a","n",
      "d"," ","e","f","f","i","c","i","e","n","c","y">>

\* "power and uptime"
q_power_and_uptime == <<"p","o","w","e","r"," ","a","n","d"," ","u","p","t","i","m","e">>

\* "show me data"
q_show_me_data == <<"s","h","o","w"," ","m","e"," ","d","a","t","a">>

\* "generate report"
q_generate_report == <<"g","e","n","e","r","a","t","e"," ","r","e","p","o","r","t">>

\* "machine performance"
q_machine_performance ==
    <<"m","a","c","h","i","n","e"," ","p","e","r","f","o","r","m","a","n","c","e">>

\* "show "
t_show == <<"s","h","o","w"," ">>

\* " report"
t_report == <<" ","r","e","p","o","r","t">>

\* " and "
t_and == <<" ","a","n","d"," ">>

\* " data"
t_data == <<" ","d","a","t","a">>

\* "every machine"
ph_every_machine == <<"e","v","e","r","y"," ","m","a","c","h","i","n","e">>

\* "each machine"
ph_each_machine == <<"e","a","c","h"," ","m","a","c","h","i","n","e">>

\* "show all machines production"
q_show_all_machines_production ==
    <<"s","h","o","w"," ","a","l","l"," ","m","a","c","h","i","n","e","s"," ","p","r","o","d",
      "u","c","t","i","o","n">>

\* "all stenters performance"
q_all_stenters_performance ==
    <<"a","l","l"," ","s","t","e","n","t","e","r","s"," ","p","e","r","f","o","r","m","a","n",
      "c","e">>

\* "every machine utilization"
q_every_machine_utilization ==
    <<"e","v","e","r","y"," ","m","a","c","h","i","n","e"," ","u","t","i","l","i","z","a","t",
      "i","o","n">>

\* "each machine data"
q_each_machine_data == <<"e","a","c","h"," ","m","a","c","h","i","n","e"," ","d","a","t","a">>

\* "stenter9"
id_stenter9 == <<"s","t","e","n","t","e","r","9">>

\* "june"
mo_june == <<"j","u","n","e">>

\* "july"
mo_july == <<"j","u","l","y">>

\* "august"
mo_august == <<"a","u","g","u","s","t">>

\* "september"
mo_september == <<"s","e","p","t","e","m","b","e","r">>

\* "october"
mo_october == <<"o","c","t","o","b","e","r">>

\* "november"
mo_november == <<"n","o","v","e","m","b","e","r">>

\* "december"
mo_december == <<"d","e","c","e","m","b","e","r">>

\* "report for "
t_report_for == <<"r","e","p","o","r","t"," ","f","o","r"," ">>

\* "last 7 days production"
q_last_7_days_production ==
    <<"l","a","s","t"," ","7"," ","d","a","y","s"," ","p","r","o","d","u","c","t","i","o","n">>

\* "energy for the past week"
q_energy_for_the_past_week ==
    <<"e","n","e","r","g","y"," ","f","o","r"," ","t","h","e"," ","p","a","s","t"," ","w","e",
      "e","k">>

\* "show production"
q_show_production == <<"s","h","o","w"," ","p","r","o","d","u","c","t","i","o","n">>

\* "april last 7 days"
q_april_last_7_days == <<"a","p","r","i","l"," ","l","a","s","t"," ","7"," ","d","a","y","s">>

\* "2025-06-01"
d_2025_06_01 == <<"2","0","2","5","-","0","6","-","0","1">>

\* "2025-06-15"
d_2025_06_15 == <<"2","0","2","5","-","0","6","-","1","5">>

\* The keywords of the three categories.
CategoryKeywords ==
    [production  |-> {kw_production, kw_length, kw_fabric_length, kw_output},
     energy      |-> {kw_energy, kw_consumption, kw_power},
     utilization |-> {kw_utilization, kw_efficiency, kw_uptime, kw_status, kw_downtime}]

\* One query for each keyword, queries with keywords of several categories,
\* queries with none, and the data queries.
TypePhrases ==
    {t_show \o k \o t_report : k \in UNION {CategoryKeywords[c] : c \in Categories}}
        \cup {q_production_and_energy_consumption, q_show_utilization_and_production,
              q_energy_production_and_efficiency, q_power_and_uptime,
              q_show_me_data, q_generate_report, q_machine_performance}
        \cup DataQueries

TypeCalls ==
    {[op |-> "detect_query_type", query |-> q] : q \in UNION {Written(s) : s \in TypePhrases}}

(* The inputs of extract_machine_numbers *)

\* The most machines one generated query mentions.
MaxMentions == 2

\* A machine number as a query writes it, with or without a leading zero.
NumbersWritten == {<<"1">>, <<"5">>, <<"9">>, <<"0", "1">>, <<"0", "9">>}

\* One mention: "stenter", the whitespace before the number, the number.
Mentions == [number : NumbersWritten, gap : {<< >>, <<" ">>}]

MentionLists == SeqUpTo(Mentions, MaxMentions)

mention_text(m) == lit_stenter \o m.gap \o m.number

\* "show <mention> and <mention> ... data"
query_of_mentions(ms) ==
    t_show \o Join(t_and, [i \in 1..Len(ms) |-> mention_text(ms[i])]) \o t_data

AllMachinesPhrases ==
    {q_show_all_machines_production, q_all_stenters_performance,
     q_every_machine_utilization, q_each_machine_data}

MachineCalls ==
    UNION {{[op |-> "extract_machine_numbers", query |-> q, mentions |-> ms] :
                q \in {query_of_mentions(ms), Upper(query_of_mentions(ms))}} :
            ms \in MentionLists \ {<< >>}}
    \cup {[op |-> "extract_machine_numbers", query |-> q] :
            q \in UNION {Written(s) : s \in AllMachinesPhrases \cup DataQueries}}

(* The inputs of extract_date_range *)

MonthNames ==
    {mo_january, mo_february, mo_march, mo_april, mo_may, mo_june, mo_july,
     mo_august, mo_september, mo_october, mo_november, mo_december}

\* "june last 7 days"
q_june_last_7_days == <<"j","u","n","e"," ","l","a","s","t"," ","7"," ","d","a","y","s">>

\* "march report, past week"
q_march_report_past_week ==
    <<"m","a","r","c","h"," ","r","e","p","o","r","t",","," ","p","a","s","t"," ","w","e","e",
      "k">>

DatePhrases ==
    {t_report_for \o m : m \in MonthNames}
        \cup {q_last_7_days_production, q_energy_for_the_past_week, q_show_production,
              q_daily_production_for_stenter_1, q_april_last_7_days,
              q_june_last_7_days, q_march_report_past_week,
              q_machine_performance_in_april, q_empty}

\* The days the clock may show: in the middle of a month, on its first day,
\* in the first week of a year and of March, in a leap year, at a year's end.
Todays ==
    {[year |-> 2025, month |-> 6,  day |-> 15],
     [year |-> 2025, month |-> 6,  day |-> 1],
     [year |-> 2025, month |-> 1,  day |-> 3],
     [year |-> 2025, month |-> 3,  day |-> 5],
     [year |-> 2024, month |-> 3,  day |-> 2],
     [year |-> 2025, month |-> 5,  day |-> 7],
     [year |-> 2025, month |-> 12, day |-> 31]}

DateCalls ==
    {[op |-> "extract_date_range", query |-> q, now |-> now] :
        q \in UNION {{s, Upper(s), Capitalized(s)} : s \in DatePhrases},
        now \in Todays}

(* The inputs of detect_visualization_needs *)

\* "visualise"
vz_visualise == <<"v","i","s","u","a","l","i","s","e">>

\* "plot energy as a pie"
q_plot_energy_as_a_pie ==
    <<"p","l","o","t"," ","e","n","e","r","g","y"," ","a","s"," ","a"," ","p","i","e">>

\* "graph of output"
q_graph_of_output == <<"g","r","a","p","h"," ","o","f"," ","o","u","t","p","u","t">>

\* "visualize uptime with bars"
q_visualize_uptime_with_bars ==
    <<"v","i","s","u","a","l","i","z","e"," ","u","p","t","i","m","e"," ","w","i","t","h"," ",
      "b","a","r","s">>

\* "visualise energy consumption"
q_visualise_energy_consumption ==
    <<"v","i","s","u","a","l","i","s","e"," ","e","n","e","r","g","y"," ","c","o","n","s","u",
      "m","p","t","i","o","n">>

\* "production totals"
q_production_totals == <<"p","r","o","d","u","c","t","i","o","n"," ","t","o","t","a","l","s">>

\* "line and pie chart of power"
q_line_and_pie_chart_of_power ==
    <<"l","i","n","e"," ","a","n","d"," ","p","i","e"," ","c","h","a","r","t"," ","o","f"," ",
      "p","o","w","e","r">>

\* "bar chart of production"
q_bar_chart_of_production ==
    <<"b","a","r"," ","c","h","a","r","t"," ","o","f"," ","p","r","o","d","u","c","t","i","o",
      "n">>

VizPhrases ==
    {q_plot_energy_as_a_pie, q_graph_of_output, q_visualize_uptime_with_bars,
     q_visualise_energy_consumption, q_production_totals, q_line_and_pie_chart_of_power,
     q_bar_chart_of_production}
        \cup DataQueries

VizCalls ==
    {[op |-> "detect_visualization_needs", query |-> q] :
        q \in UNION {Written(s) : s \in VizPhrases}}

(* The inputs of build_multi_metric_device_names *)

\* "unknown_machine"
id_unknown_machine == <<"u","n","k","n","o","w","n","_","m","a","c","h","i","n","e">>

MultiMetricCalls ==
    {[op |-> "build_multi_metric_device_names", machine |-> m] :
        m \in MachineIds \cup {id_unknown_machine}}

(* The inputs of detect_query_intent *)

\* "production by day"
q_production_by_day == <<"p","r","o","d","u","c","t","i","o","n"," ","b","y"," ","d","a","y">>

\* "show production each day"
q_show_production_each_day ==
    <<"s","h","o","w"," ","p","r","o","d","u","c","t","i","o","n"," ","e","a","c","h"," ","d",
      "a","y">>

\* "hourly production data"
q_hourly_production_data ==
    <<"h","o","u","r","l","y"," ","p","r","o","d","u","c","t","i","o","n"," ","d","a","t","a">>

\* "production by hour"
q_production_by_hour ==
    <<"p","r","o","d","u","c","t","i","o","n"," ","b","y"," ","h","o","u","r">>

\* "hour production analysis"
q_hour_production_analysis ==
    <<"h","o","u","r"," ","p","r","o","d","u","c","t","i","o","n"," ","a","n","a","l","y","s",
      "i","s">>

\* "show production and energy consumption daily"
q_show_production_and_energy_consumption_daily ==
    <<"s","h","o","w"," ","p","r","o","d","u","c","t","i","o","n"," ","a","n","d"," ","e","n",
      "e","r","g","y"," ","c","o","n","s","u","m","p","t","i","o","n"," ","d","a","i","l","y">>

\* "monthly energy report"
q_monthly_energy_report ==
    <<"m","o","n","t","h","l","y"," ","e","n","e","r","g","y"," ","r","e","p","o","r","t">>

\* "utilization by month"
q_utilization_by_month ==
    <<"u","t","i","l","i","z","a","t","i","o","n"," ","b","y"," ","m","o","n","t","h">>

IntentPhrases ==
    {q_daily_production_for_stenter_1, q_production_by_day, q_show_production_each_day,
     q_hourly_production_data, q_production_by_hour, q_hour_production_analysis,
     q_show_production_and_energy_consumption_daily, q_monthly_energy_report,
     q_utilization_by_month, q_show_production_data, q_energy_consumption_chart,
     q_machine_performance, q_empty}

IntentCalls ==
    {[op |-> "detect_query_intent", query |-> q, now |-> now] :
        q \in UNION {{s, Upper(s), Capitalized(s)} : s \in IntentPhrases},
        now \in Todays}

-----------------------------------------------------------------------------
(* The parser's and the builder's operations, each applied to the call drawn *)

Init ==
    /\ mappings = MACHINE_MAPPINGS
    /\ call \in FilterCalls \cup QueryCalls \cup ParserCalls
                \cup TypeCalls \cup MachineCalls \cup DateCalls \cup IntentCalls
                \cup VizCalls \cup MultiMetricCalls
    /\ templates \in IF call.op = "build_query" THEN TemplateTables ELSE {load_templates}
    /\ db_client = "None"
    /\ ret = Pending
    /\ trace = << >>
    /\ seen = {}
    /\ clock = [year |-> 2025, month |-> 6, day |-> 15]
    /\ session_state = << >>
    /\ added = << >>

BuildDeviceFilter ==
    /\ call.op = "build_device_filter"
    /\ ~Returned
    /\ ret' = build_device_filter(call.machines, call.query_type)
    /\ UNCHANGED <<mappings, templates, db_client, call, trace, session_vars>>

BuildQuery ==
    /\ call.op = "build_query"
    /\ ~Returned
    /\ ret' = build_query(call.template_name, call.params)
    /\ UNCHANGED <<mappings, templates, db_client, call, trace, session_vars>>

IsCasualQuery ==
    /\ call.op = "is_casual_query"
    /\ ~Returned
    /\ ret' = Ok(is_casual_query(call.query))
    /\ UNCHANGED <<mappings, templates, db_client, call, trace, session_vars>>

DetectQueryType ==
    /\ call.op = "detect_query_type"
    /\ ~Returned
    /\ ret' = Ok(detect_query_type(call.query))
    /\ UNCHANGED <<mappings, templates, db_client, call, trace, session_vars>>

ExtractMachineNumbers ==
    /\ call.op = "extract_machine_numbers"
    /\ ~Returned
    /\ ret' = Ok(extract_machine_numbers(call.query))
    /\ UNCHANGED <<mappings, templates, db_client, call, trace, session_vars>>

ExtractDateRange ==
    /\ call.op = "extract_date_range"
    /\ ~Returned
    /\ ret' = Ok(extract_date_range(call.query, call.now))
    /\ UNCHANGED <<mappings, templates, db_client, call, trace, session_vars>>

BuildMultiMetricDeviceNames ==
    /\ call.op = "build_multi_metric_device_names"
    /\ ~Returned
    /\ ret' = Ok(build_multi_metric_device_names(call.machine))
    /\ UNCHANGED <<mappings, templates, db_client, call, trace, session_vars>>

DetectVisualizationNeeds ==
    /\ call.op = "detect_visualization_needs"
    /\ ~Returned
    /\ ret' = Ok(detect_visualization_needs(call.query))
    /\ UNCHANGED <<mappings, templates, db_client, call, trace, session_vars>>

DetectQueryIntent ==
    /\ call.op = "detect_query_intent"
    /\ ~Returned
    /\ ret' = Ok(detect_query_intent(call.query, call.now))
    /\ UNCHANGED <<mappings, templates, db_client, call, trace, session_vars>>

Next ==
    \/ BuildDeviceFilter
    \/ BuildQuery
    \/ IsCasualQuery
    \/ DetectQueryType
    \/ ExtractMachineNumbers
    \/ ExtractDateRange
    \/ DetectVisualizationNeeds
    \/ DetectQueryIntent
    \/ BuildMultiMetricDeviceNames

Spec == Init /\ [][Next]_vars

-----------------------------------------------------------------------------
(* src/src/session_manager.py: the chat sessions kept in st.session_state *)

\* The most sessions made, and the most messages given to one session.
MaxSessions == 3

MaxMessages == 12

\* The values str(uuid.uuid4()) may take.
SessionIds == 1..MaxSessions

AIMessage(content) == [type |-> "ai", content |-> content]

HumanMessage(content) == [type |-> "human", content |-> content]

\* The session state before anything was stored in it.
empty_session_state == << >>

\* The last n entries of a list: list[-n:].
LastN(list, n) ==
    IF Len(list) <= n THEN list ELSE SubSeq(list, Len(list) - n + 1, Len(list))

\* initialize_sessions with the identifier uuid4 gives and the time of the
\* clock; the state it leaves.
initialize_sessions(state, session_id, now) ==
    LET with_sessions ==
            IF "sessions" \notin DOMAIN state
            THEN ("sessions" :> << >>) @@ state
            ELSE state
    IN  IF "active_session_id" \notin DOMAIN with_sessions
        THEN ("sessions" :>
                  ((session_id :>
                       [title |-> "Welcome Chat",
                        messages |-> <<AIMessage("Hello! I'm your Production Analytics Bot.")>>,
                        created_at |-> now])
                   @@ with_sessions["sessions"]))
             @@ ("active_session_id" :> session_id)
             @@ with_sessions
        ELSE with_sessions

\* create_new_session that leaves the session active that was.
create_new_session_keeps_active(state, session_id, now) ==
    IF "sessions" \notin DOMAIN state
    THEN [state |-> state, ret |-> Raise("AttributeError", "sessions")]
    ELSE [state |->
             ("sessions" :>
                  ((session_id :>
                       [title |-> "New Chat",
                        messages |-> <<AIMessage("Hello! How can I help you analyze your production data?")>>,
                        created_at |-> now])
                   @@ state["sessions"]))
             @@ state,
          ret |-> [tag |-> "rerun"]]

\* create_new_session: the state it leaves, and how it ends: st.rerun()
\* restarts the script, and a missing key of st.session_state raises.
create_new_session(state, session_id, now) ==
    IF "sessions" \notin DOMAIN state
    THEN [state |-> state, ret |-> Raise("AttributeError", "sessions")]
    ELSE [state |->
             ("sessions" :>
                  ((session_id :>
                       [title |-> "New Chat",
                        messages |-> <<AIMessage("Hello! How can I help you analyze your production data?")>>,
                        created_at |-> now])
                   @@ state["sessions"]))
             @@ ("active_session_id" :> session_id)
             @@ state,
          ret |-> [tag |-> "rerun"]]

\* add_message that trims before it appends, and so keeps one message more.
add_message_trims_first(state, message) ==
    IF "active_session_id" \notin DOMAIN state
    THEN [state |-> state, ret |-> Raise("AttributeError", "active_session_id")]
    ELSE IF "sessions" \notin DOMAIN state
    THEN [state |-> state, ret |-> Raise("AttributeError", "sessions")]
    ELSE LET active == state["active_session_id"]
             sessions == state["sessions"]
         IN  IF active \in DOMAIN sessions
             THEN [state |->
                      ("sessions" :>
                          [sessions EXCEPT ![active].messages =
                              Append(LastN(sessions[active].messages, 10), message)])
                      @@ state,
                   ret |-> Ok("None")]
             ELSE [state |-> state, ret |-> Ok("None")]

\* add_message: the state it leaves and what it returns or raises.
add_message(state, message) ==
    IF "active_session_id" \notin DOMAIN state
    THEN [state |-> state, ret |-> Raise("AttributeError", "active_session_id")]
    ELSE IF "sessions" \notin DOMAIN state
    THEN [state |-> state, ret |-> Raise("AttributeError", "sessions")]
    ELSE LET active == state["active_session_id"]
             sessions == state["sessions"]
         IN  IF active \in DOMAIN sessions
             THEN LET current_messages == Append(sessions[active].messages, message)
                  IN  [state |->
                          ("sessions" :>
                              [sessions EXCEPT ![active].messages =
                                  IF Len(current_messages) > 10
                                  THEN LastN(current_messages, 10)
                                  ELSE current_messages])
                          @@ state,
                       ret |-> Ok("None")]
             ELSE [state |-> state, ret |-> Ok("None")]

\* The identifiers in use: uuid4 gives none of them again.
used_session_ids(state) ==
    (IF "sessions" \in DOMAIN state THEN DOMAIN state["sessions"] ELSE {})
        \cup (IF "active_session_id" \in DOMAIN state THEN {state["active_session_id"]} ELSE {})

\* The sessions of a state, none before the table is made.
sessions_of(state) == IF "sessions" \in DOMAIN state THEN state["sessions"] ELSE << >>

\* The messages a session was given when it was made.
first_messages(before, after) ==
    [id \in DOMAIN sessions_of(after) \ DOMAIN sessions_of(before) |->
        sessions_of(after)[id].messages]

InitializeSessions ==
    \E session_id \in SessionIds \ used_session_ids(session_state) :
        LET after == initialize_sessions(session_state, session_id, clock)
        IN  /\ session_state' = after
            /\ added' = first_messages(session_state, after) @@ added
            /\ call' = [op |-> "initialize_sessions"]
            /\ ret' = Ok("None")
            /\ UNCHANGED <<mappings, templates, db_client, trace, seen, clock>>

CreateNewSession ==
    \E session_id \in SessionIds \ used_session_ids(session_state) :
        LET r == create_new_session(session_state, session_id, clock)
        IN  /\ session_state' = r.state
            /\ added' = first_messages(session_state, r.state) @@ added
            /\ call' = [op |-> "create_new_session"]
            /\ ret' = r.ret
            /\ UNCHANGED <<mappings, templates, db_client, trace, seen, clock>>

\* The messages of a chat: the user's and the bot's by turns, numbered.
next_message(n) == IF n % 2 = 1 THEN HumanMessage(ToString(n)) ELSE AIMessage(ToString(n))

AddMessage ==
    LET active == IF "active_session_id" \in DOMAIN session_state
                  THEN session_state["active_session_id"] ELSE 0
        given == IF active \in DOMAIN added THEN Len(added[active]) ELSE 0
    IN  /\ given < MaxMessages
        /\ \E message \in {next_message(given)} :
              LET r == add_message(session_state, message)
              IN  /\ session_state' = r.state
                  /\ added' = IF r.state # session_state
                              THEN [added EXCEPT ![active] = Append(@, message)]
                              ELSE added
                  /\ call' = [op |-> "add_message", message |-> message]
                  /\ ret' = r.ret
                  /\ UNCHANGED <<mappings, templates, db_client, trace, seen, clock>>

\* The session state as main() finds it on the first run of the script.
InitSessions ==
    /\ mappings = MACHINE_MAPPINGS
    /\ templates = load_templates
    /\ db_client = "None"
    /\ call = [op |-> "init"]
    /\ ret = Pending
    /\ trace = << >>
    /\ seen = {}
    /\ clock = [year |-> 2025, month |-> 6, day |-> 15]
    /\ session_state = empty_session_state
    /\ added = << >>

NextSessions ==
    \/ InitializeSessions
    \/ CreateNewSession
    \/ AddMessage

SpecSessions == InitSessions /\ [][NextSessions]_vars

\* A session state in which other code of the page has stored one of the
\* two keys, or both, before the session manager ran.
stored_by_others ==
    {empty_session_state,
     "sessions" :> << >>,
     "active_session_id" :> MaxSessions,
     ("sessions" :> << >>) @@ ("active_session_id" :> MaxSessions)}

InitSessionsStored ==
    /\ mappings = MACHINE_MAPPINGS
    /\ templates = load_templates
    /\ db_client = "None"
    /\ call = [op |-> "init"]
    /\ ret = Pending
    /\ trace = << >>
    /\ seen = {}
    /\ clock = [year |-> 2025, month |-> 6, day |-> 15]
    /\ session_state \in stored_by_others
    /\ added = << >>

SpecSessionsStored == InitSessionsStored /\ [][NextSessions]_vars

-----------------------------------------------------------------------------
(* extract_date_range while the clock goes on: src/src/parsers.py 46-73 *)

\* The most days the clock goes on from the day it showed at first.
MaxTicks == 2

\* The value of the local variable that holds the reading of the clock
\* before the clock was read.
unread == [year |-> 0, month |-> 0, day |-> 0]

\* The month loop of lines 59-61 finds a month in the query.
month_found(query) ==
    \E i \in 1..Len(month_mappings) : Contains(Lower(query), month_mappings[i].month)

ClockQueries ==
    {q_last_7_days_production, q_energy_for_the_past_week, q_show_production,
     q_daily_production_for_stenter_1, q_april_last_7_days, q_machine_performance_in_april}

\* Midnight: the clock shows the next day.
ClockTick ==
    /\ \E first \in Todays :
          /\ toordinal(first) <= toordinal(clock)
          /\ toordinal(clock) < toordinal(first) + MaxTicks
    /\ clock' = fromordinal(toordinal(clock) + 1)
    /\ UNCHANGED <<mappings, templates, db_client, call, ret, trace, seen, session_state, added>>

\* The call, with the one argument the method takes, up to the end of the
\* month loop.
BeginExtractDateRange ==
    /\ IF call.op = "init" THEN TRUE ELSE call.pc = "done"
    /\ \E query \in ClockQueries :
          call' = [op |-> "extract_date_range", args |-> [query |-> query],
                   pc |-> IF month_found(query) THEN "return" ELSE "read",
                   now |-> unread, reads |-> 0]
    /\ ret' = Pending
    /\ UNCHANGED <<mappings, templates, db_client, trace, session_vars>>

\* datetime.now() of line 65 or of line 70.
ReadClock ==
    /\ call.op = "extract_date_range"
    /\ call.pc = "read"
    /\ call' = [call EXCEPT !.now = clock, !.reads = @ + 1, !.pc = "return"]
    /\ UNCHANGED <<mappings, templates, db_client, ret, trace, session_vars>>

\* The return with the clock read once more for the end date.
ReturnDateRange_reads_again ==
    /\ call.op = "extract_date_range"
    /\ call.pc = "return"
    /\ ret' = Ok(<<extract_date_range(call.args.query, call.now)[1],
                   extract_date_range(call.args.query, clock)[2]>>)
    /\ call' = [call EXCEPT !.pc = "done"]
    /\ UNCHANGED <<mappings, templates, db_client, trace, session_vars>>

\* The rest of the method: both dates from the reading made.
ReturnDateRange ==
    /\ call.op = "extract_date_range"
    /\ call.pc = "return"
    /\ ret' = Ok(extract_date_range(call.args.query, call.now))
    /\ call' = [call EXCEPT !.pc = "done"]
    /\ UNCHANGED <<mappings, templates, db_client, trace, session_vars>>

InitClock ==
    /\ mappings = MACHINE_MAPPINGS
    /\ templates = load_templates
    /\ db_client = "None"
    /\ call = [op |-> "init"]
    /\ ret = Pending
    /\ trace = << >>
    /\ seen = {}
    /\ clock \in Todays
    /\ session_state = empty_session_state
    /\ added = << >>

NextClock ==
    \/ ClockTick
    \/ BeginExtractDateRange
    \/ ReadClock
    \/ ReturnDateRange

SpecClock == InitClock /\ [][NextClock]_vars

-----------------------------------------------------------------------------
(* The bot, from its construction on, processing one query after another *)

InitApp ==
    /\ mappings = MACHINE_MAPPINGS
    /\ templates = load_templates
    /\ db_client = "None"
    /\ call = [op |-> "init"]
    /\ ret = Pending
    /\ trace = << >>
    /\ seen = {}
    /\ clock = [year |-> 2025, month |-> 6, day |-> 15]
    /\ session_state = << >>
    /\ added = << >>

ProcessQuery ==
    \E user_query \in AppQueries, conn \in ConnOutcomes, schema_ok \in BOOLEAN :
        LET r == process_query(user_query, conn, schema_ok)
        IN  /\ call' = [op |-> "process_query", user_query |-> user_query]
            /\ ret' = r.ret
            /\ db_client' = r.db
            /\ trace' = r.trace
            /\ UNCHANGED <<mappings, templates, session_vars>>

NextApp ==
    \/ ProcessQuery

SpecApp == InitApp /\ [][NextApp]_vars

-----------------------------------------------------------------------------
(* Several callers at once on the one mapping table and the one builder *)

\* The threads that call the parser, the builder and the bot.
Threads == {"t1", "t2"}

Idle == [op |-> "idle"]

\* The four extractions of QueryParser on one query.
extract(query, now) ==
    [query_type    |-> detect_query_type(query),
     machines      |-> extract_machine_numbers(query),
     date_range    |-> extract_date_range(query, now),
     visualization |-> detect_visualization_needs(query)]

SharedCalls ==
    {[op |-> "extract", query |-> q, now |-> now] :
        q \in {q_show_all_machines_production, q_show_production_for_stenter_99},
        now \in {[year |-> 2025, month |-> 6, day |-> 15],
                 [year |-> 2025, month |-> 1, day |-> 3]}}
    \cup {[op |-> "build_device_filter", machines |-> <<id_stenter1, id_stenter99>>,
           query_type |-> "production"],
          [op |-> "build_query", template_name |-> nm_daily_production,
           params |-> (f_start_date :> v_start_date)],
          [op |-> "process_query", user_query |-> q_show_production_data]}

\* A thread makes a call, its first or one after the last has returned.
Invoke(t) ==
    /\ call[t] = Idle \/ ret[t] # Pending
    /\ \E c \in SharedCalls : call' = [call EXCEPT ![t] = c]
    /\ ret' = [ret EXCEPT ![t] = Pending]
    /\ UNCHANGED <<mappings, templates, db_client, trace, session_vars>>

\* The extraction that enters the machines it finds into the mapping table.
ReturnExtract_registers_machines(t) ==
    /\ call[t].op = "extract"
    /\ ret[t] = Pending
    /\ LET result == extract(call[t].query, call[t].now)
       IN  /\ ret' = [ret EXCEPT ![t] = Ok(result)]
           /\ seen' = seen \cup {[query |-> call[t].query, now |-> call[t].now,
                                  result |-> result]}
           /\ mappings' = [mappings EXCEPT !["production"] =
                              [id \in Range(result.machines) |-> << >>] @@ @]
    /\ UNCHANGED <<templates, db_client, call, trace, clock, session_state, added>>

ReturnExtract(t) ==
    /\ call[t].op = "extract"
    /\ ret[t] = Pending
    /\ LET result == extract(call[t].query, call[t].now)
       IN  /\ ret' = [ret EXCEPT ![t] = Ok(result)]
           /\ seen' = seen \cup {[query |-> call[t].query, now |-> call[t].now,
                                  result |-> result]}
    /\ UNCHANGED <<mappings, templates, db_client, call, trace, clock, session_state, added>>

ReturnBuildDeviceFilter(t) ==
    /\ call[t].op = "build_device_filter"
    /\ ret[t] = Pending
    /\ ret' = [ret EXCEPT ![t] = build_device_filter(call[t].machines, call[t].query_type)]
    /\ UNCHANGED <<mappings, templates, db_client, call, trace, session_vars>>

ReturnBuildQuery(t) ==
    /\ call[t].op = "build_query"
    /\ ret[t] = Pending
    /\ ret' = [ret EXCEPT ![t] = build_query(call[t].template_name, call[t].params)]
    /\ UNCHANGED <<mappings, templates, db_client, call, trace, session_vars>>

ReturnProcessQuery(t) ==
    /\ call[t].op = "process_query"
    /\ ret[t] = Pending
    /\ \E conn \in ConnOutcomes :
          LET r == process_query(call[t].user_query, conn, TRUE)
          IN  /\ ret' = [ret EXCEPT ![t] = r.ret]
              /\ db_client' = r.db
              /\ trace' = r.trace
    /\ UNCHANGED <<mappings, templates, call, session_vars>>

\* The caller's change of a list that is the table's own list of keys:
\* the identifier added is a key of the table from then on.
ModifyMachineList_of_table(t) ==
    /\ call[t].op = "extract"
    /\ ret[t] # Pending
    /\ id_quoted \notin Range(ret[t].value.machines)
    /\ ret' = [ret EXCEPT ![t].value.machines = Append(@, id_quoted)]
    /\ mappings' = [mappings EXCEPT !["production"] = (id_quoted :> << >>) @@ @]
    /\ UNCHANGED <<templates, db_client, call, trace, session_vars>>

\* The caller adds an identifier to the machine list it was returned:
\* list(...) of line 42 and the comprehension of line 39 make a new list.
ModifyMachineList(t) ==
    /\ call[t].op = "extract"
    /\ ret[t] # Pending
    /\ id_quoted \notin Range(ret[t].value.machines)
    /\ ret' = [ret EXCEPT ![t].value.machines = Append(@, id_quoted)]
    /\ UNCHANGED <<mappings, templates, db_client, call, trace, session_vars>>

InitShared ==
    /\ mappings = MACHINE_MAPPINGS
    /\ templates = load_templates
    /\ db_client = "None"
    /\ call = [t \in Threads |-> Idle]
    /\ ret = [t \in Threads |-> Pending]
    /\ trace = << >>
    /\ seen = {}
    /\ clock = [year |-> 2025, month |-> 6, day |-> 15]
    /\ session_state = empty_session_state
    /\ added = << >>

NextShared ==
    \E t \in Threads :
        \/ Invoke(t)
        \/ ReturnExtract(t)
        \/ ReturnBuildDeviceFilter(t)
        \/ ReturnBuildQuery(t)
        \/ ReturnProcessQuery(t)
        \/ ModifyMachineList(t)

SpecShared == InitShared /\ [][NextShared]_vars

-----------------------------------------------------------------------------
(* Claims about build_device_filter *)

IsFilterCall == call.op = "build_device_filter" /\ Returned

\* The positions of a machine list whose identifier is a key of the
\* category's mapping.
Resolving(machines, query_type) ==
    {i \in 1..Len(machines) :
        /\ query_type \in DOMAIN mappings
        /\ machines[i] \in DOMAIN mappings[query_type]}

\* The device names the resolving identifiers map to.
ResolvedNames(machines, query_type) ==
    {mappings[query_type][machines[i]] : i \in Resolving(machines, query_type)}

\* C1: the shape of build_device_filter's result follows the machines that
\* resolve in the category's mapping: the empty string for an empty machine
\* list; an equality clause (device_id = ...) naming exactly the one resolved
\* device name when exactly one machine resolves; an IN clause whose string
\* literals are the resolved device names, one per resolving machine and
\* nothing else, when two or more resolve.
C1_FilterShape ==
    IsFilterCall =>
        LET ms == call.machines
            qt == call.query_type
            n  == Cardinality(Resolving(ms, qt))
        IN  /\ ms = << >> => ret = Ok(<< >>)
            /\ n = 1 =>
                /\ ret.tag = "ok"
                /\ SubSeq(ret.value, 1, Len(EqHead)) = EqHead
                /\ Len(QuotedValues(ret.value)) = 1
                /\ Range(QuotedValues(ret.value)) = ResolvedNames(ms, qt)
            /\ n >= 2 =>
                /\ ret.tag = "ok"
                /\ SubSeq(ret.value, 1, Len(InHead)) = InHead
                /\ Len(QuotedValues(ret.value)) = n
                /\ Range(QuotedValues(ret.value)) = ResolvedNames(ms, qt)

\* C1 witness: a call with two resolving machines and one that does not
\* resolve returned a clause with two string literals.
C1_Witness ==
    /\ IsFilterCall
    /\ Len(call.machines) = 3
    /\ Cardinality(Resolving(call.machines, call.query_type)) = 2
    /\ ret.tag = "ok"
    /\ Len(QuotedValues(ret.value)) = 2

\* C2: a non-empty machine list none of whose identifiers resolves in the
\* category's mapping yields the empty string and no error, never a clause
\* over an empty device name.
C2_NoneResolvesGivesEmpty ==
    (/\ IsFilterCall
     /\ call.machines # << >>
     /\ Resolving(call.machines, call.query_type) = {})
        => ret = Ok(<< >>)

\* C3: every string literal of the returned clause is a value of the mapping
\* table for the category, and no machine identifier of the call appears in
\* the clause.
C3_OnlyMappingValues ==
    (IsFilterCall /\ ret.tag = "ok") =>
        /\ \A v \in Range(QuotedValues(ret.value)) :
              /\ call.query_type \in DOMAIN mappings
              /\ v \in Values(mappings[call.query_type])
        /\ \A m \in Range(call.machines) : ~Contains(ret.value, m)

\* C4: lookups are scoped by category: stenter7 under energy yields the
\* energy device name TJ-Stenter07A, and stenter3 under utilization yields
\* the status device name.
C4_CategoryScopedLookup ==
    /\ (IsFilterCall /\ call.machines = <<id_stenter7>> /\ call.query_type = "energy")
          => ret = Ok(EqHead \o dev_Stenter07A \o EqTail)
    /\ (IsFilterCall /\ call.machines = <<id_stenter3>> /\ call.query_type = "utilization")
          => ret = Ok(EqHead \o dev_Stenter03_Status \o EqTail)

-----------------------------------------------------------------------------
(* Claims about build_query *)

IsQueryCall == call.op = "build_query" /\ Returned

Registered == call.template_name \in DOMAIN templates

\* The named placeholders of a template: the fields written {name} in it.
Placeholders(t) == {f \in Fields : Contains(t, <<"{">> \o f \o <<"}">>)}

\* The placeholders of the called template that the call binds no value to.
Unbound == Placeholders(templates[call.template_name]) \ DOMAIN call.params

\* C5 as stated: an unregistered template name fails with
\* TemplateNotFoundError carrying the missing key, and no SQL is returned.
C5_TemplateNotFoundError ==
    (IsQueryCall /\ ~Registered) =>
        /\ ret.tag = "raise"
        /\ ret.exc = "TemplateNotFoundError"

\* C5 as amended: an unregistered template name fails with ValueError whose
\* message, "Template <name> not found", names the missing key; no SQL
\* string is returned.
C5_UnregisteredRaisesValueError ==
    (IsQueryCall /\ ~Registered) =>
        ret = Raise("ValueError", msg_Template \o call.template_name \o msg_not_found)

\* C5 witness: a call with a name the table lacks, made on the table that
\* holds the other templates, has raised.
C5_Witness ==
    /\ IsQueryCall
    /\ ~Registered
    /\ nm_hourly_production \in DOMAIN templates
    /\ ret.tag = "raise"

\* C6 as stated: a registered template with a placeholder the parameters do
\* not bind fails with MissingParameterError.
C6_MissingParameterError ==
    (IsQueryCall /\ Registered /\ Unbound # {}) =>
        /\ ret.tag = "raise"
        /\ ret.exc = "MissingParameterError"

\* C6 as amended: a registered template with a named placeholder the
\* parameters do not bind fails with KeyError naming an unbound placeholder;
\* no string is returned, partly substituted or otherwise.
C6_UnboundRaisesKeyError ==
    (IsQueryCall /\ Registered /\ Unbound # {}) =>
        /\ ret.tag = "raise"
        /\ ret.exc = "KeyError"
        /\ ret.arg \in Unbound

\* C6 witness: a call that binds some placeholders of its template and not
\* others has raised.
C6_Witness ==
    /\ IsQueryCall
    /\ Registered
    /\ Unbound # {}
    /\ Placeholders(templates[call.template_name]) \cap DOMAIN call.params # {}
    /\ ret.tag = "raise"

\* C7: whenever build_query returns a string for a registered template, the
\* string holds no unsubstituted placeholder marker: no {name} of any field,
\* and no brace at all.
C7_NoPlaceholderLeft ==
    (IsQueryCall /\ Registered /\ ret.tag = "ok") =>
        /\ \A f \in Fields : ~Contains(ret.value, <<"{">> \o f \o <<"}">>)
        /\ Range(ret.value) \cap Braces = {}

\* C7 witness: a template with three placeholders was built with all of them
\* bound, and the bound values are in the text returned.
C7_Witness ==
    /\ IsQueryCall
    /\ Registered
    /\ Cardinality(Placeholders(templates[call.template_name])) = 3
    /\ ret.tag = "ok"
    /\ Contains(ret.value, v_start_date)
    /\ Contains(ret.value, v_end_date)
    /\ Contains(ret.value, dev_Stenter01_Length)

-----------------------------------------------------------------------------
(* Claims about the casual-query check *)

IsCasualCall == call.op = "is_casual_query" /\ Returned

\* Words of the data domain: the machine and metric names and "report".
DomainVocabulary ==
    {w_production, w_report, w_energy, w_consumption, w_output, w_utilization,
     w_machine, w_stenter}

HasDomainWord(query) == \E w \in DomainVocabulary : Contains(Lower(query), w)

\* C8: a query that contains a word of the data domain is never classified
\* as casual, also when it contains a casual token as a word or inside
\* another word.
C8_DomainWordsOverride ==
    (IsCasualCall /\ HasDomainWord(call.query)) => ret = Ok(FALSE)

\* C9: a query that consists only of a phrase of the casual vocabulary
\* (hello, hi, hey, thanks, thank you, bye, ok, cool, help, good morning,
\* good afternoon), in any letter case and with whitespace around it, is
\* classified as casual.
C9_VocabularyIsCasual ==
    (IsCasualCall /\ Strip(Lower(call.query)) \in CasualVocabulary) => ret = Ok(TRUE)

-----------------------------------------------------------------------------
(* Claims about the request pipeline *)

IsProcessCall == call.op = "process_query"

StartsWith(s, p) == Len(s) >= Len(p) /\ SubSeq(s, 1, Len(p)) = p

\* C10: when the query is classified as casual, process_query returns a
\* casual reply that is no error message, and on that call touches neither
\* the language model nor the database and runs no extraction: the casual
\* check is the only call it makes on its components.
C10_CasualShortCircuit ==
    (IsProcessCall /\ is_casual_query(call.user_query)) =>
        /\ ret.tag = "ok"
        /\ ~StartsWith(ret.value, msg_An_error_occurred)
        /\ trace = <<"query_parser.is_casual_query">>

\* The calls an orchestrator that only routes would make for a data query:
\* extraction and the SQL build.
RoutingCalls ==
    {"query_parser.detect_query_type", "query_parser.extract_machine_numbers",
     "query_parser.extract_date_range", "sql_builder.build_device_filter",
     "sql_builder.build_query"}

\* The calls that reach the language model, the database or the UI.
ExecutionCalls ==
    {"db_client.get_schema_info", "db_client.execute_query", "llm_client.generate_sql",
     "llm_client.generate_response", "chart_builder.create_chart", "st.plotly_chart",
     "clickhouse_connect.get_client", "client.query SELECT 1", "client.query schema_query"}

IsDataCall == IsProcessCall /\ ~is_casual_query(call.user_query)

\* C11 as stated: for a data query the entry point runs the casual check,
\* then extraction, then the SQL build, and itself neither executes SQL nor
\* calls a language model nor renders UI.
C11_RoutesWithoutExecuting ==
    IsDataCall =>
        /\ trace # << >>
        /\ trace[1] = "query_parser.is_casual_query"
        /\ "sql_builder.build_query" \in Range(trace)
        /\ Range(trace) \cap ExecutionCalls = {}

\* C11 as amended: for a data query process_query runs the casual check,
\* then reads the schema through the database client, then asks the language
\* model for the SQL and hands the result to the database client to execute;
\* it runs no extraction and no template build, and what it returns is a
\* string.
C11_PipelineExecutes ==
    IsDataCall =>
        /\ Len(trace) >= 4
        /\ trace[1] = "query_parser.is_casual_query"
        /\ trace[2] = "db_client.get_schema_info"
        /\ trace[Len(trace) - 1] = "llm_client.generate_sql"
        /\ trace[Len(trace)] = "db_client.execute_query"
        /\ \A i \in 3..(Len(trace) - 2) :
              trace[i] \in {"clickhouse_connect.get_client", "client.query SELECT 1",
                            "client.query schema_query"}
        /\ Range(trace) \cap RoutingCalls = {}
        /\ ret.tag = "ok"
        /\ ret.value \in Seq(STRING)

\* C11 witness: a data query was processed on a client that connected during
\* the call and read the schema.
C11_Witness ==
    /\ IsDataCall
    /\ db_client = "connected"
    /\ "clickhouse_connect.get_client" \in Range(trace)
    /\ "client.query schema_query" \in Range(trace)

\* The text of a template-not-found or missing-parameter failure: "Template
\* <name> not found", or the quoted name of an unbound field.
TemplateFailureTexts ==
    {msg_Template \o n \o msg_not_found : n \in TemplateNames}
        \cup {<<"'">> \o f \o <<"'">> : f \in Fields}

\* C12: only a template-not-found or missing-parameter failure makes
\* process_query return an error message; a casual query, an ambiguous query
\* and a query about an unknown machine never do.
C12_OnlyTemplateErrorsSurface ==
    (IsProcessCall /\ ret.tag = "ok" /\ StartsWith(ret.value, msg_An_error_occurred)) =>
        SubSeq(ret.value, Len(msg_An_error_occurred) + 1, Len(ret.value))
            \in TemplateFailureTexts

-----------------------------------------------------------------------------
(* Category detection *)

IsTypeCall == call.op = "detect_query_type" /\ Returned

\* The categories of which the query contains a documented keyword.
CategoriesPresent(query) ==
    {c \in Categories : \E k \in CategoryKeywords[c] : Contains(Lower(query), k)}

\* C13: a query that contains keywords of two or more metric categories is
\* classified as multi-metric (the classification names no set of
\* categories: detect_query_type returns one string).
C13_MultiMetricClassified ==
    (IsTypeCall /\ Cardinality(CategoriesPresent(call.query)) >= 2)
        => ret = Ok("multi_metric")

\* C14: a query that contains keywords of exactly one category, for every
\* keyword of the documented sets and every letter case, is classified as
\* that category.
C14_SingleCategoryClassified ==
    \A c \in Categories :
        (IsTypeCall /\ CategoriesPresent(call.query) = {c}) => ret = Ok(c)

\* C15: detection is total: every query returns a category, and a query
\* that contains no category keyword, the empty string included, is
\* classified as production.
C15_DefaultsToProduction ==
    IsTypeCall =>
        /\ ret.tag = "ok"
        /\ ret.value \in Categories
        /\ CategoriesPresent(call.query) = {} => ret.value = "production"

C15_Witness ==
    /\ IsTypeCall
    /\ CategoriesPresent(call.query) = {}
    /\ Contains(Lower(call.query), q_machine_performance)
    /\ ret = Ok("production")

-----------------------------------------------------------------------------
(* Machine extraction *)

IsMachineCall == call.op = "extract_machine_numbers" /\ Returned

\* The call's query was written from a list of mentions.
HasMentions == "mentions" \in DOMAIN call

\* A number without its leading zeros.
RECURSIVE Unpadded(_)
Unpadded(number) ==
    IF Len(number) > 1 /\ number[1] = "0" THEN Unpadded(Tail(number)) ELSE number

\* A list without the later repetitions of its entries.
FirstAppearances(list) ==
    SelectSeq([i \in 1..Len(list) |->
                  [entry |-> list[i], first |-> \A j \in 1..(i - 1) : list[j] # list[i]]],
              LAMBDA e : e.first)

CanonicalIdentifiers(mentions) ==
    LET ids == [i \in 1..Len(mentions) |-> lit_stenter \o Unpadded(mentions[i].number)]
        kept == FirstAppearances(ids)
    IN  [i \in 1..Len(kept) |-> kept[i].entry]

\* C16, as stated: the list holds the unpadded identifier of every machine
\* mentioned, once, in the order of first appearance.
C16_CanonicalOnce ==
    (IsMachineCall /\ HasMentions) => ret = Ok(CanonicalIdentifiers(call.mentions))

\* C16, amended: the list holds one identifier for each mention, in the
\* order of the mentions, "stenter" followed by the digits as written; a
\* leading zero is kept and a repeated mention is repeated.
C16_OnePerMention ==
    (IsMachineCall /\ HasMentions) =>
        ret = Ok([i \in 1..Len(call.mentions) |-> lit_stenter \o call.mentions[i].number])

C16_Witness ==
    /\ IsMachineCall
    /\ HasMentions
    /\ Len(call.mentions) = 2
    /\ call.mentions[1].number = <<"0", "9">>
    /\ call.mentions[2].number = <<"0", "9">>
    /\ call.mentions[1].gap # call.mentions[2].gap
    /\ Len(ret.value) = 2
    /\ ret.value[1] = ret.value[2]

AllMachinesWords == {ph_all_machines, ph_all_stenters, ph_every_machine, ph_each_machine}

\* The query names a specific stenter.
NamesStenter(query) ==
    \E d \in Digits, gap \in {<< >>, <<" ">>} :
        Contains(Lower(query), lit_stenter \o gap \o <<d>>)

\* C17: a query with one of the four all-machines phrases that names no
\* specific stenter yields all identifiers of the mapping of the category
\* detected for it, stenter1 through stenter9 among them.
C17_AllMachinesOfCategory ==
    ( /\ IsMachineCall
      /\ \E p \in AllMachinesWords : Contains(Lower(call.query), p)
      /\ ~NamesStenter(call.query) ) =>
        LET category == detect_query_type(call.query)
        IN  /\ ret.tag = "ok"
            /\ category \in DOMAIN mappings
            /\ Range(ret.value) = DOMAIN mappings[category]
            /\ {lit_stenter \o <<d>> : d \in Digits \ {"0"}} \subseteq Range(ret.value)

-----------------------------------------------------------------------------
(* Date ranges *)

IsDateCall == call.op = "extract_date_range" /\ Returned

\* The twelve months in calendar order.
Calendar ==
    <<mo_january, mo_february, mo_march, mo_april, mo_may, mo_june, mo_july,
      mo_august, mo_september, mo_october, mo_november, mo_december>>

MonthsNamed(query) == {i \in 1..Len(Calendar) : Contains(Lower(query), Calendar[i])}

RelativePhrase(query) ==
    \E p \in {ph_last_7_days, ph_past_week} : Contains(Lower(query), p)

\* The first and the last day of a month of the reference year.
ReferenceMonth(i) ==
    <<strftime([year |-> 2025, month |-> i, day |-> 1]),
      strftime([year |-> 2025, month |-> i, day |-> days_in_month(2025, i)])>>

\* C18: a query that contains the name of one of the twelve months, in any
\* letter case, yields that month's first and last day of the reference
\* year.
C18_EveryMonthNamed ==
    \A i \in 1..Len(Calendar) :
        (IsDateCall /\ MonthsNamed(call.query) = {i}) => ret = Ok(ReferenceMonth(i))

\* s is a date written YYYY-MM-DD.
IsISODate(s) ==
    /\ Len(s) = 10
    /\ \A i \in 1..10 : IF i \in {5, 8} THEN s[i] = "-" ELSE s[i] \in Digits

DigitValue(c) == CHOOSE v \in 0..9 : DigitChars[v + 1] = c

RECURSIVE NumberOf(_)
NumberOf(s) ==
    IF s = << >> THEN 0
    ELSE 10 * NumberOf(SubSeq(s, 1, Len(s) - 1)) + DigitValue(s[Len(s)])

ParseISODate(s) ==
    [year  |-> NumberOf(SubSeq(s, 1, 4)),
     month |-> NumberOf(SubSeq(s, 6, 7)),
     day   |-> NumberOf(SubSeq(s, 9, 10))]

\* The day after a date, stepping through the calendar.
NextDay(date) ==
    IF date.day < days_in_month(date.year, date.month)
    THEN [date EXCEPT !.day = date.day + 1]
    ELSE IF date.month < 12
    THEN [date EXCEPT !.month = date.month + 1, !.day = 1]
    ELSE [year |-> date.year + 1, month |-> 1, day |-> 1]

RECURSIVE DaysLater(_, _)
DaysLater(date, n) == IF n = 0 THEN date ELSE DaysLater(NextDay(date), n - 1)

\* C19: a query with "last 7 days" or "past week" and no month name yields
\* two ISO dates: the end is the current date, and the start is exactly 7
\* days before it, across month and year boundaries too.
C19_LastSevenDays ==
    (IsDateCall /\ RelativePhrase(call.query) /\ MonthsNamed(call.query) = {}) =>
        /\ ret.tag = "ok"
        /\ Len(ret.value) = 2
        /\ IsISODate(ret.value[1])
        /\ IsISODate(ret.value[2])
        /\ ParseISODate(ret.value[2]) = call.now
        /\ DaysLater(ParseISODate(ret.value[1]), 7) = call.now

\* The range of a relative phrase that begins in the year before.
C19_Witness ==
    /\ IsDateCall
    /\ RelativePhrase(call.query)
    /\ MonthsNamed(call.query) = {}
    /\ ParseISODate(ret.value[1]).year + 1 = call.now.year
    /\ ParseISODate(ret.value[2]) = call.now

\* C20: a query with neither a month name nor a relative phrase yields the
\* first day of the current month and the current date; "daily production
\* for stenter 1" on 2025-06-15 yields ("2025-06-01", "2025-06-15").
C20_DefaultRange ==
    (IsDateCall /\ ~RelativePhrase(call.query) /\ MonthsNamed(call.query) = {}) =>
        /\ ret.tag = "ok"
        /\ Len(ret.value) = 2
        /\ IsISODate(ret.value[1])
        /\ IsISODate(ret.value[2])
        /\ ParseISODate(ret.value[1]) = [call.now EXCEPT !.day = 1]
        /\ ParseISODate(ret.value[2]) = call.now
        /\ ( /\ call.query = q_daily_production_for_stenter_1
             /\ call.now = [year |-> 2025, month |-> 6, day |-> 15] )
                => ret.value = <<d_2025_06_01, d_2025_06_15>>

C20_Witness ==
    /\ IsDateCall
    /\ call.query = q_daily_production_for_stenter_1
    /\ call.now = [year |-> 2025, month |-> 6, day |-> 15]
    /\ ret = Ok(<<d_2025_06_01, d_2025_06_15>>)

\* d is a day of the calendar.
IsCalendarDate(d) ==
    /\ d.year >= 1
    /\ d.month \in 1..12
    /\ d.day \in 1..days_in_month(d.year, d.month)

\* a is the day b or an earlier one.
NotAfter(a, b) ==
    \/ a.year < b.year
    \/ a.year = b.year /\ a.month < b.month
    \/ a.year = b.year /\ a.month = b.month /\ a.day <= b.day

\* C21: for every query and every current date, the range returned is a
\* pair of concrete calendar dates, the start not after the end.
C21_StartNotAfterEnd ==
    IsDateCall =>
        /\ ret.tag = "ok"
        /\ Len(ret.value) = 2
        /\ IsISODate(ret.value[1])
        /\ IsISODate(ret.value[2])
        /\ IsCalendarDate(ParseISODate(ret.value[1]))
        /\ IsCalendarDate(ParseISODate(ret.value[2]))
        /\ NotAfter(ParseISODate(ret.value[1]), ParseISODate(ret.value[2]))

\* A relative range that begins in the month before: the start's day of
\* the month is the greater one.
C21_Witness ==
    /\ IsDateCall
    /\ RelativePhrase(call.query)
    /\ MonthsNamed(call.query) = {}
    /\ ParseISODate(ret.value[1]).year = ParseISODate(ret.value[2]).year
    /\ ParseISODate(ret.value[1]).day > ParseISODate(ret.value[2]).day

-----------------------------------------------------------------------------
(* Granularity and intent *)

IsIntentCall == call.op = "detect_query_intent" /\ Returned

\* The granularities the words of the query ask for.
GranularitiesAsked(query) ==
    LET q == Lower(query)
        hour  == Contains(q, g_hour) \/ Contains(q, g_hourly)
        month == Contains(q, g_month) \/ Contains(q, g_monthly)
    IN  (IF hour THEN {g_hourly} ELSE {})
            \cup (IF month THEN {g_monthly} ELSE {})
            \cup (IF Contains(q, g_day) \/ Contains(q, g_daily) \/ ~(hour \/ month)
                  THEN {g_daily} ELSE {})

\* The category of the query: multi-metric with keywords of two or more
\* categories, the one category present, production without any.
CategoryAsked(query) ==
    LET present == CategoriesPresent(query)
    IN  IF Cardinality(present) >= 2 THEN "multi_metric"
        ELSE IF present = {} THEN "production"
        ELSE CHOOSE c \in present : TRUE

\* C22: the granularity is hourly for "hour"/"hourly", monthly for
\* "month"/"monthly", daily for "day"/"daily" or no such word, and the
\* intent name combines it with the category: daily_production,
\* hourly_production, multi_metric_daily.
C22_GranularityAndIntent ==
    IsIntentCall =>
        \A g \in GranularitiesAsked(call.query) :
            LET category == CategoryAsked(call.query)
                name == IF category = "multi_metric"
                        THEN t_multi_metric \o <<"_">> \o g
                        ELSE g \o <<"_">> \o category_text[category]
            IN  ret.value[1] = name /\ ret.value[3] = category

-----------------------------------------------------------------------------
(* Visualization *)

IsVizCall == call.op = "detect_visualization_needs" /\ Returned

VisualizationWords == {vz_plot, vz_chart, vz_graph, vz_visualize, vz_visualise, vz_show}

ChartTypeWords == [line |-> ct_line, pie |-> ct_pie, bar |-> ct_bar]

ChartTypesNamed(query) ==
    {t \in DOMAIN ChartTypeWords : Contains(Lower(query), ChartTypeWords[t])}

\* C23: a visualization is wanted exactly when the query contains plot,
\* chart, graph, visualize, visualise or show; the chart type is a
\* chart-type keyword of the query, and bar when it has none.
C23_VisualizationDetected ==
    IsVizCall =>
        /\ ret.value[1] <=> \E w \in VisualizationWords : Contains(Lower(call.query), w)
        /\ IF ChartTypesNamed(call.query) = {}
           THEN ret.value[2] = "bar"
           ELSE ret.value[2] \in ChartTypesNamed(call.query)

-----------------------------------------------------------------------------
(* The device names of a multi-metric query *)

IsMultiMetricCall == call.op = "build_multi_metric_device_names" /\ Returned

\* C26: one device name per category is bound for the machine, each
\* resolved in that category's mapping, so that stenter7 gets the energy
\* name with the A suffix; an identifier a category does not know binds
\* the empty string.
C26_OneNamePerCategory ==
    IsMultiMetricCall =>
        /\ ret.tag = "ok"
        /\ DOMAIN ret.value = {"production_device", "energy_device", "utilization_device"}
        /\ call.machine = id_stenter1 => ret.value.production_device = dev_Stenter01_Length
        /\ call.machine = id_stenter7 => ret.value.energy_device = dev_Stenter07A
        /\ call.machine = id_stenter3 => ret.value.utilization_device = dev_Stenter03_Status
        /\ call.machine = id_unknown_machine =>
              /\ ret.value.production_device = << >>
              /\ ret.value.energy_device = << >>
              /\ ret.value.utilization_device = << >>

-----------------------------------------------------------------------------
(* The order of the date rules *)

\* C27: a month name wins over a relative phrase, and a relative phrase
\* over the current-month default; a query with a month name and "last 7
\* days" gets the month's range.
C27_MonthThenRelativeThenDefault ==
    IsDateCall =>
        LET months == MonthsNamed(call.query)
        IN  IF months # {}
            THEN \E i \in months : ret = Ok(ReferenceMonth(i))
            ELSE IF RelativePhrase(call.query)
            THEN ret = Ok(<<strftime(date_minus_days(call.now, 7)), strftime(call.now)>>)
            ELSE ret = Ok(<<strftime([call.now EXCEPT !.day = 1]), strftime(call.now)>>)

-----------------------------------------------------------------------------
(* Chat sessions *)

\* Config.MAX_CHAT_HISTORY
MAX_CHAT_HISTORY == 10

\* The active session of a state that has one.
HasActive(state) ==
    /\ "active_session_id" \in DOMAIN state
    /\ state["active_session_id"] \in DOMAIN sessions_of(state)

\* C29: after an add_message call every session holds at most 10 messages,
\* the most recent ones it was given, in their order; the call leaves the
\* other sessions as they were, adds and removes no session, and changes
\* nothing when the active session id is not a key of the session table.
C29_LastTenKept ==
    [][ call'.op = "add_message" =>
            LET before == sessions_of(session_state)
                after  == sessions_of(session_state')
            IN  /\ DOMAIN after = DOMAIN before
                /\ \A id \in DOMAIN after :
                      /\ Len(after[id].messages) <= MAX_CHAT_HISTORY
                      /\ after[id].messages = LastN(added'[id], MAX_CHAT_HISTORY)
                      /\ (HasActive(session_state) /\ id # session_state["active_session_id"])
                            => after[id] = before[id]
                /\ ~HasActive(session_state) => session_state' = session_state
      ]_vars

\* A session given more than 10 messages, beside another session.
C29_Witness ==
    /\ call.op = "add_message"
    /\ HasActive(session_state)
    /\ Cardinality(DOMAIN sessions_of(session_state)) >= 2
    /\ LET active == session_state["active_session_id"]
       IN  /\ Len(added[active]) > MAX_CHAT_HISTORY
           /\ Len(session_state["sessions"][active].messages) = MAX_CHAT_HISTORY
           /\ session_state["sessions"][active].messages[MAX_CHAT_HISTORY] = call.message

\* C30: from the empty session state on, once initialize_sessions has run
\* the active session id is a key of the session table; a further
\* initialize_sessions changes nothing; create_new_session adds exactly one
\* session, holding one greeting message, makes it the active one and
\* leaves the sessions there were as they were.
C30_ActiveSessionExists ==
    [][ LET before == sessions_of(session_state)
            after  == sessions_of(session_state')
        IN  /\ "active_session_id" \in DOMAIN session_state' => HasActive(session_state')
            /\ call'.op = "initialize_sessions" =>
                  /\ HasActive(session_state')
                  /\ HasActive(session_state) => session_state' = session_state
            /\ (call'.op = "create_new_session" /\ HasActive(session_state)) =>
                  /\ ret'.tag = "rerun"
                  /\ Cardinality(DOMAIN after \ DOMAIN before) = 1
                  /\ \A id \in DOMAIN before : id \in DOMAIN after /\ after[id] = before[id]
                  /\ \A id \in DOMAIN after \ DOMAIN before :
                        /\ session_state'["active_session_id"] = id
                        /\ Len(after[id].messages) = 1
                        /\ after[id].messages[1].type = "ai"
      ]_vars

\* A third session just made, active, beside the two there were.
C30_Witness ==
    /\ call.op = "create_new_session"
    /\ ret.tag = "rerun"
    /\ HasActive(session_state)
    /\ Cardinality(DOMAIN sessions_of(session_state)) = 3
    /\ Len(session_state["sessions"][session_state["active_session_id"]].messages) = 1

-----------------------------------------------------------------------------
(* The clock during one extraction *)

IsClockCall == call.op = "extract_date_range" /\ call.pc = "done"

\* The two dates come from the one reading of the clock, if any was made.
FromOneReading ==
    /\ call.reads <= 1
    /\ ret.tag = "ok"
    /\ call.reads = 1 =>
          /\ IsISODate(ret.value[1])
          /\ IsISODate(ret.value[2])
          /\ ParseISODate(ret.value[2]) = call.now
          /\ \/ ParseISODate(ret.value[1]) = [call.now EXCEPT !.day = 1]
             \/ DaysLater(ParseISODate(ret.value[1]), 7) = call.now

\* C28, as stated: the clock is read at most once, the reading is an
\* argument of the call, and both dates of the range come from it.
C28_ClockInjected ==
    IsClockCall => ("now" \in DOMAIN call.args /\ FromOneReading)

\* C28, amended: the method reads the clock itself, at most once in a
\* call, and both dates of a default or relative range come from that
\* reading, whatever the clock shows when the call returns.
C28_ClockReadOnce ==
    IsClockCall =>
        /\ FromOneReading
        /\ call.reads = 0 <=> month_found(call.args.query)

\* A call during which the clock went on into the next month.
C28_Witness ==
    /\ IsClockCall
    /\ call.reads = 1
    /\ clock.month # call.now.month
    /\ ParseISODate(ret.value[2]) = call.now
    /\ ParseISODate(ret.value[1]).month = call.now.month

-----------------------------------------------------------------------------
(* Extraction without hidden state, and the tables left as they were *)

\* C24: two extractions of the same query with the same current date give
\* the same results, whatever calls were made, returned or still running
\* in between, and whatever a caller did with a result.
C24_SameQuerySameResult ==
    \A a, b \in seen :
        (a.query = b.query /\ a.now = b.now) => a.result = b.result

\* Both threads hold the result of the same extraction, made at different
\* times, and one of them has changed its machine list since.
C24_Witness ==
    /\ \A t \in Threads : call[t].op = "extract" /\ ret[t] # Pending
    /\ call["t1"] = call["t2"]
    /\ call["t1"].query = q_show_all_machines_production
    /\ ret["t1"].value.machines # ret["t2"].value.machines
    /\ Cardinality(seen) >= 2

\* C25: whatever calls the threads make and however they interleave, the
\* mapping table and the template set are what they were at startup, also
\* after a caller changed the machine list it was returned.
C25_TablesUnchanged ==
    /\ mappings = MACHINE_MAPPINGS
    /\ templates = load_templates

\* A thread has changed the list of all machines it was returned while the
\* other thread's call is running.
C25_Witness ==
    /\ \E t \in Threads :
          /\ call[t].op = "extract"
          /\ call[t].query = q_show_all_machines_production
          /\ ret[t] # Pending
          /\ id_quoted \in Range(ret[t].value.machines)
    /\ \E t \in Threads : call[t] # Idle /\ ret[t] = Pending
    /\ db_client # "None"
    /\ mappings = MACHINE_MAPPINGS

====
